---- MODULE Spec2Model ----
(***************************************************************************)
(* Model of sync-typecho-to-notion: the command-line run (main, syncPosts,  *)
(* syncLinks, exportToMarkdown) and the Notion page protocols it drives     *)
(* (createPage, updatePage, replacePageContent).                            *)
(*                                                                          *)
(* One process, one await at a time: every remote call is one step, and    *)
(* every remote call may fail.  The Notion store and the file system are    *)
(* the environment; their state is part of the model.                       *)
(***************************************************************************)
EXTENDS Integers, Sequences, FiniteSets, TLC

(***************************************************************************)
(* Bounds of the model.                                                     *)
(***************************************************************************)
MaxPosts == 2
MaxInstant == 2
MaxBlocks == 250
MaxOld == 201

(***************************************************************************)
(* Program constants.                                                       *)
(***************************************************************************)
MAX_CHILDREN == 100
page_size == 100
SLEEP_MS == 350

Min(a, b) == IF a <= b THEN a ELSE b

(***************************************************************************)
(* Strings are sequences of one-character strings, so that the formatting  *)
(* of an instant and JavaScript's string comparison are computed.          *)
(***************************************************************************)
Digits == <<"0", "1", "2", "3", "4", "5", "6", "7", "8", "9">>

DigitChar(n) == Digits[n + 1]

DigitVal(c) == (CHOOSE i \in 1..10 : Digits[i] = c) - 1

IsDigit(c) == \E i \in 1..10 : Digits[i] = c

\* UTF-16 code unit of the characters an ISO-8601 string is made of.
CharCode(c) ==
  IF IsDigit(c) THEN 48 + DigitVal(c)
  ELSE CASE c = "+" -> 43
         [] c = "-" -> 45
         [] c = "." -> 46
         [] c = ":" -> 58
         [] c = "T" -> 84
         [] c = "Z" -> 90

Pad2(n) == <<DigitChar(n \div 10), DigitChar(n % 10)>>

Pad3(n) == <<DigitChar(n \div 100), DigitChar((n \div 10) % 10), DigitChar(n % 10)>>

\* new Date(ms).toISOString(), for instants within January 1970.
ToISOString(ms) ==
  LET sec == ms \div 1000
      day == (sec \div 86400) + 1
      hh  == (sec % 86400) \div 3600
      mm  == (sec % 3600) \div 60
      ss  == sec % 60
  IN  <<"1", "9", "7", "0", "-", "0", "1", "-">> \o Pad2(day) \o <<"T">>
        \o Pad2(hh) \o <<":">> \o Pad2(mm) \o <<":">> \o Pad2(ss)
        \o <<".">> \o Pad3(ms % 1000) \o <<"Z">>

\* a <= b on JavaScript strings: by code unit, a proper prefix is smaller.
StrLE(a, b) ==
  LET n    == Min(Len(a), Len(b))
      diff == {k \in 1..n : a[k] # b[k]}
  IN  IF diff = {} THEN Len(a) <= Len(b)
      ELSE LET k == CHOOSE d \in diff : \A e \in diff : d <= e
           IN  CharCode(a[k]) < CharCode(b[k])

(***************************************************************************)
(* The date string the store returns for a Modified property holding the   *)
(* instant t (seconds): with the Z designator, or with a numeric offset.   *)
(***************************************************************************)
DateStart(t, form) ==
  LET z == ToISOString(t * 1000)
  IN  IF form = "Z" THEN z
      ELSE SubSeq(z, 1, Len(z) - 1) \o <<"+", "0", "0", ":", "0", "0">>

\* The instant (seconds) an ISO-8601 date string of either form denotes.
InstantOf(s) ==
  LET num(i) == 10 * DigitVal(s[i]) + DigitVal(s[i + 1])
  IN  (num(9) - 1) * 86400 + num(12) * 3600 + num(15) * 60 + num(18)

Instants == 0..MaxInstant

Markers == {<<>>} \cup {DateStart(t, f) : t \in Instants, f \in {"Z", "offset"}}

(***************************************************************************)
(* Source entities.  A text is a sequence of lines: 0 is a blank line, a   *)
(* positive number a line of text, a negative number a line that is one    *)
(* image whose URL is that number.                                          *)
(***************************************************************************)
Slug(k) == <<"s", DigitChar(k)>>

Title(k) == <<"T", DigitChar(k)>>

SmallText(k) == IF k % 2 = 1 THEN <<10 * k + 1, 0, 10 * k + 2>> ELSE <<10 * k + 1, -k>>

BigText(n) == [j \in 1..n |-> j]

Post(k, text) ==
  [title |-> Title(k), slug |-> Slug(k), created |-> 0, modified |-> 1, text |-> text]

SmallPosts(n) == [k \in 1..n |-> Post(k, SmallText(k))]

Link(k) == [name |-> Title(k), url |-> Slug(k)]

Links(n) == [k \in 1..n |-> Link(k)]

BigSizes == {MAX_CHILDREN - 1, MAX_CHILDREN, MAX_CHILDREN + 1, MaxBlocks}

OldSizes == {0, MAX_CHILDREN, MAX_CHILDREN + 1, MaxOld}

\* convertContentToBlocks, as far as the protocols see it: one block per
\* non-blank line, in line order.
IsBlock(line) == line # 0

convertContentToBlocks(text) == SelectSeq(text, IsBlock)

\* Mutant: the end index taken as inclusive.
SliceInclusive(children, from) ==
  SubSeq(children, from + 1, Min(from + MAX_CHILDREN + 1, Len(children)))

\* children.slice(from, from + 100), with from counted from 0 as in the code.
Slice(children, from) == SubSeq(children, from + 1, Min(from + MAX_CHILDREN, Len(children)))

(***************************************************************************)
(* The remote database: a sequence of pages, each with its key (Slug or    *)
(* URL property), its Modified property and its child blocks.  A block has *)
(* the identifier the store gave it and its content.                       *)
(***************************************************************************)
OldBlocks(first, m) == [j \in 1..m |-> [id |-> first + j, content |-> 1000 + j]]

Page(k, marker, m) ==
  [id |-> k, key |-> Slug(k), modified |-> marker, children |-> OldBlocks(1000 * k, m)]

REQUIRED_PROPERTIES == {"Slug", "Category", "Tags", "Status", "Created", "Modified"}

LINKS_REQUIRED_PROPERTIES == {"URL", "Sort", "Image", "Description"}

\* One page of a cursor-paginated listing of seq: the elements from the one
\* the cursor names (from the first without a cursor), at most size of them.
ListFrom(seq, cursor, size) ==
  LET start == IF cursor = <<>> THEN 1
               ELSE CHOOSE k \in 1..Len(seq) : seq[k].id = cursor[1]
      last  == Min(start + size - 1, Len(seq))
  IN  [results     |-> SubSeq(seq, start, last),
       has_more    |-> last < Len(seq),
       next_cursor |-> IF last < Len(seq) THEN <<seq[last + 1].id>> ELSE <<>>]

CursorKnown(seq, cursor) ==
  IF cursor = <<>> THEN TRUE ELSE \E k \in 1..Len(seq) : seq[k].id = cursor[1]

PageIndex(db, pid) == CHOOSE k \in 1..Len(db) : db[k].id = pid

HasPage(db, pid) == \E k \in 1..Len(db) : db[k].id = pid

NewPageId(db) ==
  LET ids == {0} \cup {db[k].id : k \in 1..Len(db)}
  IN  1 + CHOOSE x \in ids : \A y \in ids : y <= x

NewBlocks(first, contents) ==
  [j \in 1..Len(contents) |-> [id |-> first + j - 1, content |-> contents[j]]]

Without(blocks, bid) == LET Other(b) == b.id # bid IN SelectSeq(blocks, Other)

\* The store's primitives, as functions of the database.
StoreCreate(db, key, marker, first, contents) ==
  Append(db, [id |-> NewPageId(db), key |-> key, modified |-> marker,
              children |-> NewBlocks(first, contents)])

StoreUpdate(db, pid, key, marker) ==
  [db EXCEPT ![PageIndex(db, pid)] = [@ EXCEPT !.key = key, !.modified = marker]]

StoreAppend(db, pid, first, contents) ==
  [db EXCEPT ![PageIndex(db, pid)] =
     [@ EXCEPT !.children = @ \o NewBlocks(first, contents)]]

StoreDelete(db, bid) ==
  [k \in 1..Len(db) |-> [db[k] EXCEPT !.children = Without(@, bid)]]

(***************************************************************************)
(* State.                                                                   *)
(*   env, args          the environment variables set, the command line     *)
(*   cache, typecho     the post cache file and the Typecho database        *)
(*   properties, remote the Notion database: its properties and its pages   *)
(*   nextId             the next block identifier the store hands out       *)
(*   files              the export directory                                *)
(*   posts .. error     the locals of the running function                  *)
(*   printed            what printSummary wrote                             *)
(*   calls, raised      history: the calls issued, the exceptions raised    *)
(*                      inside the per-entity try block                     *)
(***************************************************************************)
VARIABLES pc, env, args, cache, typecho, properties, remote, nextId, files,
          posts, links, existing, result, printed, currentIndex, cleanedPost,
          action, hasMore, startCursor, existingBlocks, i, pageId, error,
          calls, raised,
          \* cleanBrokenImageLinks and runWithConcurrencyLimit
          ppc, checkLinks, items, brokenUrls, index, executing, validityResults, settled,
          removed,
          \* the call of a pure function and what it returned
          call, ret

pool   == <<ppc, checkLinks, items, brokenUrls, index, executing, validityResults, settled,
           removed>>
pure   == <<call, ret>>
inputs == <<env, args, typecho>>
store  == <<properties, remote, nextId>>
walk   == <<hasMore, startCursor, existingBlocks>>
locals == <<posts, links, existing, currentIndex, cleanedPost, action, i, pageId, error>>
sync   == <<pc, inputs, cache, store, files, walk, locals, result, printed, calls, raised>>
vars   == <<pc, inputs, cache, store, files, walk, locals, result, printed, calls, raised,
           pool, pure>>

Args(cmd, noCache, clear, check, only) ==
  [command |-> cmd, noCache |-> noCache, clearCache |-> clear,
   checkImageLinks |-> check, argc3 |-> only]

Envs == [notion : BOOLEAN, links : BOOLEAN, typecho : BOOLEAN, adapter : BOOLEAN]

GoodEnv == [notion |-> TRUE, links |-> TRUE, typecho |-> TRUE, adapter |-> TRUE]

Database(n) == [posts |-> SmallPosts(n), links |-> Links(n)]

BigDatabase(n) == [posts |-> <<Post(1, BigText(n))>>, links |-> <<>>]

Absent == <<"absent">>

\* The pages of a database in which the page of slug k is absent or carries
\* the marker choice[k].
RECURSIVE PagesOf(_, _, _, _)
PagesOf(choice, k, n, m) ==
  IF k > n THEN <<>>
  ELSE (IF choice[k] = Absent THEN <<>> ELSE <<Page(k, choice[k], m)>>)
         \o PagesOf(choice, k + 1, n, m)

\* The first entity ranges over every marker, the others over no page, a
\* page without marker and a page with a later marker.
Choices(n) ==
  {c \in [1..n -> Markers \cup {Absent}] :
     \A k \in 2..n : c[k] \in {Absent, <<>>, DateStart(MaxInstant, "Z")}}

SmallRemotes(n) == {PagesOf(c, 1, n, 2) : c \in Choices(n)}

LinkRemotes(n) == {PagesOf(c, 1, n, 0) : c \in [1..n -> {<<>>, Absent}]}

\* {year}-{month}-{day}-{slug}.md, the date in UTC.
generateFilename(post) ==
  SubSeq(ToISOString(post.created * 1000), 1, 10) \o <<"-">> \o post.slug
    \o <<".", "m", "d">>

\* An export directory in which the file of post k is absent or has a
\* frontmatter whose modified line is choice[k] (none for the empty string).
FilesOf(choice, n) ==
  LET present == {k \in 1..n : choice[k] # Absent}
  IN  [name \in {generateFilename(SmallPosts(n)[k]) : k \in present} |->
         LET k == CHOOSE j \in present : generateFilename(SmallPosts(n)[j]) = name
         IN  [modified |-> choice[k], text |-> <<1000 + k>>]]

SmallFiles(n) == {FilesOf(c, n) : c \in Choices(n)}

NoResult == [total |-> 0, created |-> 0, updated |-> 0, skipped |-> 0, failed |-> 0,
             errors |-> <<>>]

NoResponse == [results |-> <<>>, has_more |-> FALSE, next_cursor |-> <<>>]

Start(e, a, c, db, props, r, f) ==
  /\ pc = "load"
  /\ env = e /\ args = a /\ cache = c /\ typecho = db
  /\ properties = props /\ remote = r /\ nextId = 1 /\ files = f
  /\ posts = <<>> /\ links = <<>> /\ existing = <<>>
  /\ result = NoResult /\ printed = <<>>
  /\ currentIndex = 0 /\ cleanedPost = Post(0, <<>>) /\ action = ""
  /\ hasMore = FALSE /\ startCursor = <<>> /\ existingBlocks = NoResponse
  /\ i = 0 /\ pageId = 0 /\ error = ""
  /\ calls = <<>> /\ raised = <<>>

\* Runs whose configuration is incomplete.
InitEnv ==
  \E e \in Envs \ {GoodEnv}, cmd \in {"posts", "links", "markdown"} :
     Start(e, Args(cmd, FALSE, FALSE, FALSE, FALSE), <<>>, Database(1),
           REQUIRED_PROPERTIES, <<>>, <<>>)

\* Posts runs over every combination of absent pages and Modified markers.
InitPosts ==
  \E n \in 0..MaxPosts, check \in BOOLEAN :
    \E r \in SmallRemotes(n) :
       Start(GoodEnv, Args("posts", FALSE, FALSE, check, FALSE), <<>>, Database(n),
             REQUIRED_PROPERTIES, r, <<>>)

\* Posts runs over the command-line flags, the cache and the properties.
InitArgs ==
  \E noCache \in BOOLEAN, clear \in BOOLEAN, only \in BOOLEAN, cached \in BOOLEAN,
     props \in {{}, REQUIRED_PROPERTIES} :
     /\ only => clear /\ ~noCache
     /\ Start(GoodEnv, Args("posts", noCache, clear, FALSE, only),
              IF cached THEN <<SmallPosts(MaxPosts)>> ELSE <<>>, Database(MaxPosts),
              props, <<Page(1, <<>>, 2)>>, <<>>)

\* Posts runs of one long post, created or replacing a long page.
InitBig ==
  \E n \in BigSizes, r \in {<<>>} \cup {<<Page(1, <<>>, m)>> : m \in OldSizes} :
     Start(GoodEnv, Args("posts", FALSE, FALSE, FALSE, FALSE), <<>>, BigDatabase(n),
           REQUIRED_PROPERTIES, r, <<>>)

\* Links runs.
InitLinks ==
  \E n \in 0..MaxPosts,
     props \in {{}, LINKS_REQUIRED_PROPERTIES,
                (LINKS_REQUIRED_PROPERTIES \ {"Image"}) \cup {"Image:rich_text"}} :
    \E r \in LinkRemotes(n) :
       Start(GoodEnv, Args("links", FALSE, FALSE, FALSE, FALSE), <<>>, Database(n),
             props, r, <<>>)

\* Markdown exports.
InitExport ==
  \E n \in 0..MaxPosts, check \in BOOLEAN :
    \E f \in SmallFiles(n) :
       Start(GoodEnv, Args("markdown", FALSE, FALSE, check, FALSE), <<>>, Database(n),
             REQUIRED_PROPERTIES, <<>>, f)

MaxPages == 201

QuerySizes == {page_size, page_size + 1, MaxPages}

\* A database of n pages of which only the last has a Slug or URL: the one
\* of the first entity.
ManyPages(n) ==
  [k \in 1..n |-> [id |-> k, key |-> IF k = n THEN Slug(1) ELSE <<>>,
                   modified |-> <<>>, children |-> <<>>]]

\* Runs against a database of several result pages.
InitManyPages ==
  \E n \in QuerySizes, cmd \in {"posts", "links"} :
     Start(GoodEnv, Args(cmd, FALSE, FALSE, FALSE, FALSE), <<>>, Database(1),
           IF cmd = "links" THEN LINKS_REQUIRED_PROPERTIES ELSE REQUIRED_PROPERTIES,
           ManyPages(n), <<>>)

\* No image batch is under way.
PoolIdle ==
  /\ ppc = "idle" /\ checkLinks = FALSE /\ items = <<>> /\ brokenUrls = {}
  /\ index = 0 /\ executing = <<>> /\ validityResults = <<>> /\ settled = {}
  /\ removed = {}

\* No pure function is being applied.
PureIdle == call = [fn |-> "none"] /\ ret = <<>>

Init ==
  /\ InitEnv \/ InitPosts \/ InitArgs \/ InitBig \/ InitLinks \/ InitExport
     \/ InitManyPages
  /\ PoolIdle
  /\ PureIdle

(***************************************************************************)
(* Helpers of the actions.                                                  *)
(***************************************************************************)
Entities == IF args.command = "links" THEN links ELSE posts

\* The label the per-entity catch logs: the post's title, the link's name.
Label == IF args.command = "links" THEN links[currentIndex].name
         ELSE posts[currentIndex].title

\* A history entry: the call, the entity being processed (0 before the
\* loop), its target (a page or block identifier, or the cursor sent), the
\* blocks sent, and whether it returned.
Call(op, target, blocks, ok) ==
  [op |-> op, ent |-> currentIndex, target |-> target, blocks |-> blocks, ok |-> ok,
   more |-> FALSE]

\* The entry of a listing call: the identifiers listed and has_more.
ListCall(cursor, response) ==
  [op |-> "blocks.children.list", ent |-> currentIndex, target |-> cursor,
   blocks |-> [k \in 1..Len(response.results) |-> response.results[k].id],
   ok |-> TRUE, more |-> response.has_more]

\* Mutant: the rejection travels on to main().catch.
ThrowAsFatal(op, target) ==
  /\ pc' = "exit1"
  /\ error' = op
  /\ calls' = Append(calls, Call(op, target, <<>>, FALSE))
  /\ raised' = Append(raised, [title |-> Label, error |-> op])

\* Mutant: the rejection is swallowed where it arises.
ThrowSwallowed(op, target) ==
  /\ pc' = "sleep"
  /\ error' = op
  /\ calls' = Append(calls, Call(op, target, <<>>, FALSE))
  /\ raised' = Append(raised, [title |-> Label, error |-> op])

\* A call that throws inside the per-entity try block.
Throw(op, target) ==
  /\ pc' = "catch"
  /\ error' = op
  /\ calls' = Append(calls, Call(op, target, <<>>, FALSE))
  /\ raised' = Append(raised, [title |-> Label, error |-> op])

\* A call that throws outside it: the function's own catch closes the
\* database and rethrows, main().catch exits with status 1.
Fatal(op) ==
  /\ pc' = "exit1"
  /\ error' = op
  /\ calls' = Append(calls, Call(op, <<>>, <<>>, FALSE))

\* pageMap after the pages of one response have been put in it.
PutAll(map, results) ==
  LET keys == {results[k].key : k \in 1..Len(results)} \ {<<>>}
  IN  [s \in (DOMAIN map) \cup keys |->
         IF s \in keys
         THEN LET last == CHOOSE k \in 1..Len(results) :
                            /\ results[k].key = s
                            /\ \A j \in (k + 1)..Len(results) : results[j].key # s
              IN  [pageId |-> results[last].id, modified |-> results[last].modified]
         ELSE map[s]]

\* existing.modified && postModified <= existing.modified
NoUpdateNeeded(post, page) ==
  /\ page.modified # <<>>
  /\ StrLE(ToISOString(post.modified * 1000), page.modified)

BuildProperties(post) ==
  [key |-> post.slug, modified |-> ToISOString(post.modified * 1000)]

ImageUrls(text) == {text[k] : k \in {j \in 1..Len(text) : text[j] < 0}}

\* The text with the image syntax of the broken URLs removed.
RemoveImages(text, broken) ==
  [k \in 1..Len(text) |-> IF text[k] \in broken THEN 0 ELSE text[k]]

Children(pid) == remote[PageIndex(remote, pid)].children

(***************************************************************************)
(* Start-up: config.ts at import, main.                                     *)
(***************************************************************************)
LoadConfig ==
  /\ pc = "load"
  /\ pc' = IF env.notion /\ env.typecho THEN "main" ELSE "exit1"
  /\ UNCHANGED <<pool, pure, inputs, cache, store, files, walk, locals, result, printed, calls, raised>>

Main ==
  /\ pc = "main"
  /\ cache' = IF args.clearCache THEN <<>> ELSE cache
  /\ pc' = IF args.clearCache /\ args.argc3 THEN "exit0"
           ELSE IF ~env.adapter THEN "exit1"
           ELSE IF args.command = "links" /\ ~env.links THEN "exit1"
           ELSE "fetch"
  /\ UNCHANGED <<pool, pure, inputs, store, files, walk, locals, result, printed, calls, raised>>

(***************************************************************************)
(* syncPosts: fetching, properties, the query of existing pages.            *)
(***************************************************************************)
Fetched(list) ==
  /\ posts' = list
  /\ result' = [result EXCEPT !.total = Len(list)]
  /\ pc' = IF Len(list) = 0 THEN "exit0"
           ELSE IF args.command = "markdown" THEN "loop" ELSE "ensure"

FetchPosts ==
  /\ pc = "fetch"
  /\ args.command \in {"posts", "markdown"}
  /\ LET cached == IF ~args.noCache /\ cache # <<>> THEN cache[1] ELSE <<>>
     IN  \/ /\ Len(cached) > 0
            /\ Fetched(cached)
            /\ UNCHANGED <<cache, error, calls>>
         \/ /\ Len(cached) = 0
            /\ Fetched(typecho.posts)
            /\ cache' = IF Len(typecho.posts) > 0 THEN <<typecho.posts>> ELSE cache
            /\ UNCHANGED <<error, calls>>
         \/ /\ Len(cached) = 0
            /\ Fatal("typecho")
            /\ UNCHANGED <<cache, posts, result>>
  /\ UNCHANGED <<pool, pure, inputs, store, files, walk, links, existing, currentIndex, cleanedPost,
                 action, i, pageId, printed, raised>>

EnsureDatabaseProperties ==
  /\ pc = "ensure"
  /\ LET required == IF args.command = "links" THEN LINKS_REQUIRED_PROPERTIES
                     ELSE REQUIRED_PROPERTIES
         missing  == required \ properties
     IN  \/ /\ Fatal("databases.retrieve")
            /\ UNCHANGED <<properties, walk, existing>>
         \/ /\ args.command = "links"
            /\ "Image:rich_text" \in properties
            /\ Fatal("Image property exists but has wrong type")
            /\ UNCHANGED <<properties, walk, existing>>
         \/ /\ missing # {}
            /\ Fatal("databases.update")
            /\ UNCHANGED <<properties, walk, existing>>
         \/ /\ ~(args.command = "links" /\ "Image:rich_text" \in properties)
            /\ properties' = properties \cup required
            /\ calls' = Append(calls, Call("databases.retrieve", <<>>, <<>>, TRUE))
            /\ pc' = "query"
            /\ hasMore' = TRUE /\ startCursor' = <<>> /\ existing' = <<>>
            /\ UNCHANGED <<existingBlocks, error>>
  /\ UNCHANGED <<pool, pure, inputs, cache, remote, nextId, files, posts, links, currentIndex,
                 cleanedPost, action, i, pageId, result, printed, raised>>

\* Mutant: the loop ends after the first response.
QueryExistingOnePage ==
  /\ pc = "query"
  /\ hasMore
  /\ \/ /\ Fatal("databases.query")
        /\ UNCHANGED <<walk, existing>>
     \/ /\ CursorKnown(remote, startCursor)
        /\ LET response == ListFrom(remote, startCursor, page_size)
           IN  /\ existing' = PutAll(existing, response.results)
               /\ hasMore' = FALSE
               /\ startCursor' = response.next_cursor
               /\ pc' = "loop"
        /\ calls' = Append(calls, Call("databases.query", startCursor, <<>>, TRUE))
        /\ UNCHANGED <<existingBlocks, error>>
  /\ UNCHANGED <<pool, pure, inputs, cache, store, files, posts, links, currentIndex, cleanedPost,
                 action, i, pageId, result, printed, raised>>

QueryExisting ==
  /\ pc = "query"
  /\ hasMore
  /\ \/ /\ Fatal("databases.query")
        /\ UNCHANGED <<walk, existing>>
     \/ /\ CursorKnown(remote, startCursor)
        /\ LET response == ListFrom(remote, startCursor, page_size)
           IN  /\ existing' = PutAll(existing, response.results)
               /\ hasMore' = response.has_more
               /\ startCursor' = response.next_cursor
               /\ pc' = IF response.has_more THEN "query" ELSE "loop"
        /\ calls' = Append(calls, Call("databases.query", startCursor, <<>>, TRUE))
        /\ UNCHANGED <<existingBlocks, error>>
  /\ UNCHANGED <<pool, pure, inputs, cache, store, files, posts, links, currentIndex, cleanedPost,
                 action, i, pageId, result, printed, raised>>

(***************************************************************************)
(* syncPosts: the per-post loop.                                            *)
(***************************************************************************)
Decide ==
  /\ pc = "loop"
  /\ args.command = "posts"
  /\ currentIndex < Len(posts)
  /\ currentIndex' = currentIndex + 1
  /\ LET post == posts[currentIndex + 1]
     IN  IF post.slug \in DOMAIN existing /\ NoUpdateNeeded(post, existing[post.slug])
         THEN /\ result' = [result EXCEPT !.skipped = @ + 1]
              /\ pc' = "loop"
         ELSE /\ result' = result
              /\ pc' = "clean"
  /\ UNCHANGED <<pool, pure, inputs, cache, store, files, walk, posts, links, existing, cleanedPost,
                 action, i, pageId, error, printed, calls, raised>>

\* cleanBrokenImageLinks: which checked images are broken is the network's choice.
CleanBrokenImageLinks ==
  /\ pc = "clean"
  /\ LET post == posts[currentIndex]
     IN  \E broken \in IF args.checkImageLinks THEN SUBSET ImageUrls(post.text) ELSE {{}} :
            cleanedPost' = [post EXCEPT !.text = RemoveImages(post.text, broken)]
  /\ pc' = IF args.command = "markdown" THEN "export"
           ELSE IF posts[currentIndex].slug \in DOMAIN existing THEN "update"
           ELSE "create"
  /\ UNCHANGED <<pool, pure, inputs, cache, store, files, walk, posts, links, existing, currentIndex,
                 action, i, pageId, error, result, printed, calls, raised>>

\* updatePage: the properties first.
\* Mutant: the properties are written without the Modified marker.
PagesUpdateKeepsMarker ==
  /\ pc = "update"
  /\ LET pid   == existing[cleanedPost.slug].pageId
         props == BuildProperties(cleanedPost)
     IN  \/ /\ Throw("pages.update", <<pid>>)
            /\ UNCHANGED <<remote, walk>>
         \/ /\ HasPage(remote, pid)
            /\ remote' = StoreUpdate(remote, pid, props.key,
                                     remote[PageIndex(remote, pid)].modified)
            /\ calls' = Append(calls, Call("pages.update", <<pid>>, <<>>, TRUE))
            /\ pc' = "list"
            /\ hasMore' = TRUE /\ startCursor' = <<>>
            /\ UNCHANGED <<existingBlocks, error, raised>>
  /\ UNCHANGED <<pool, pure, inputs, cache, properties, nextId, files, posts, links, existing,
                 currentIndex, cleanedPost, action, i, pageId, result, printed>>

PagesUpdate ==
  /\ pc = "update"
  /\ LET pid   == existing[cleanedPost.slug].pageId
         props == BuildProperties(cleanedPost)
     IN  \/ /\ Throw("pages.update", <<pid>>)
            /\ UNCHANGED <<remote, walk>>
         \/ /\ HasPage(remote, pid)
            /\ remote' = StoreUpdate(remote, pid, props.key, props.modified)
            /\ calls' = Append(calls, Call("pages.update", <<pid>>, <<>>, TRUE))
            /\ pc' = "list"
            /\ hasMore' = TRUE /\ startCursor' = <<>>
            /\ UNCHANGED <<existingBlocks, error, raised>>
  /\ UNCHANGED <<pool, pure, inputs, cache, properties, nextId, files, posts, links, existing,
                 currentIndex, cleanedPost, action, i, pageId, result, printed>>

\* Mutant: has_more is not looked at, the walk ends with the first response.
AfterBatchOnePage(response) ==
  /\ hasMore' = response.has_more
  /\ startCursor' = response.next_cursor
  /\ IF Len(convertContentToBlocks(cleanedPost.text)) > 0
     THEN pc' = "append" /\ i' = 0 /\ result' = result
     ELSE pc' = "sleep" /\ i' = i /\ result' = [result EXCEPT !.updated = @ + 1]

\* Mutant: the appends start at 100, as they do in createPage.
AfterBatchFrom100(response) ==
  /\ hasMore' = response.has_more
  /\ startCursor' = response.next_cursor
  /\ IF response.has_more
     THEN pc' = "list" /\ i' = i /\ result' = result
     ELSE IF Len(convertContentToBlocks(cleanedPost.text)) > MAX_CHILDREN
          THEN pc' = "append" /\ i' = MAX_CHILDREN /\ result' = result
          ELSE pc' = "sleep" /\ i' = i /\ result' = [result EXCEPT !.updated = @ + 1]

\* replacePageContent, after the blocks of one response have been deleted:
\* the next page of the listing, or the appends, or nothing left to do.
AfterBatch(response) ==
  /\ hasMore' = response.has_more
  /\ startCursor' = response.next_cursor
  /\ IF response.has_more
     THEN pc' = "list" /\ i' = i /\ result' = result
     ELSE IF Len(convertContentToBlocks(cleanedPost.text)) > 0
          THEN pc' = "append" /\ i' = 0 /\ result' = result
          ELSE pc' = "sleep" /\ i' = i /\ result' = [result EXCEPT !.updated = @ + 1]

ListChildren ==
  /\ pc = "list"
  /\ hasMore
  /\ LET pid == existing[cleanedPost.slug].pageId
     IN  \/ /\ Throw("blocks.children.list", <<pid>>)
            /\ UNCHANGED <<walk, i, result>>
         \/ /\ HasPage(remote, pid)
            /\ CursorKnown(Children(pid), startCursor)
            /\ LET response == ListFrom(Children(pid), startCursor, page_size)
               IN  /\ existingBlocks' = response
                   /\ IF response.results = <<>>
                      THEN AfterBatch(response)
                      ELSE pc' = "delete" /\ UNCHANGED <<hasMore, startCursor, i, result>>
            /\ calls' = Append(calls, ListCall(startCursor,
                                 ListFrom(Children(pid), startCursor, page_size)))
            /\ UNCHANGED <<error, raised>>
  /\ UNCHANGED <<pool, pure, inputs, cache, store, files, posts, links, existing, currentIndex,
                 cleanedPost, action, pageId, printed>>

DeleteBlock ==
  /\ pc = "delete"
  /\ LET block == Head(existingBlocks.results)
     IN  \/ /\ Throw("blocks.delete", <<block.id>>)
            /\ UNCHANGED <<remote, walk, i, result>>
         \/ /\ remote' = StoreDelete(remote, block.id)
            /\ existingBlocks' = [existingBlocks EXCEPT !.results = Tail(@)]
            /\ IF Tail(existingBlocks.results) = <<>>
               THEN AfterBatch(existingBlocks)
               ELSE pc' = "delete" /\ UNCHANGED <<hasMore, startCursor, i, result>>
            /\ calls' = Append(calls, Call("blocks.delete", <<block.id>>, <<>>, TRUE))
            /\ UNCHANGED <<error, raised>>
  /\ UNCHANGED <<pool, pure, inputs, cache, properties, nextId, files, posts, links, existing,
                 currentIndex, cleanedPost, action, pageId, printed>>

AppendChunk ==
  /\ pc = "append"
  /\ LET pid       == existing[cleanedPost.slug].pageId
         newBlocks == convertContentToBlocks(cleanedPost.text)
         chunk     == Slice(newBlocks, i)
     IN  \/ /\ Throw("blocks.children.append", <<pid>>)
            /\ UNCHANGED <<remote, nextId, i, result>>
         \/ /\ HasPage(remote, pid)
            /\ remote' = StoreAppend(remote, pid, nextId, chunk)
            /\ nextId' = nextId + Len(chunk)
            /\ i' = i + MAX_CHILDREN
            /\ IF i + MAX_CHILDREN < Len(newBlocks)
               THEN pc' = "append" /\ result' = result
               ELSE pc' = "sleep" /\ result' = [result EXCEPT !.updated = @ + 1]
            /\ calls' = Append(calls, Call("blocks.children.append", <<pid>>, chunk, TRUE))
            /\ UNCHANGED <<error, raised>>
  /\ UNCHANGED <<pool, pure, inputs, cache, properties, files, walk, posts, links, existing,
                 currentIndex, cleanedPost, action, pageId, printed>>

\* createPage: the page with its first blocks.
PagesCreate ==
  /\ pc = "create"
  /\ LET props    == BuildProperties(cleanedPost)
         children == convertContentToBlocks(cleanedPost.text)
         initialChildren == Slice(children, 0)
     IN  \/ /\ Throw("pages.create", <<>>)
            /\ UNCHANGED <<remote, nextId, i, pageId, result>>
         \/ /\ remote' = StoreCreate(remote, props.key, props.modified, nextId, initialChildren)
            /\ nextId' = nextId + Len(initialChildren)
            /\ pageId' = NewPageId(remote)
            /\ IF Len(children) > MAX_CHILDREN
               THEN pc' = "create.append" /\ i' = MAX_CHILDREN /\ result' = result
               ELSE pc' = "sleep" /\ i' = i /\ result' = [result EXCEPT !.created = @ + 1]
            /\ calls' = Append(calls, Call("pages.create", <<>>, initialChildren, TRUE))
            /\ UNCHANGED <<error, raised>>
  /\ UNCHANGED <<pool, pure, inputs, cache, properties, files, walk, posts, links, existing,
                 currentIndex, cleanedPost, action, printed>>

\* createPage: the rest of the blocks.
CreateAppend ==
  /\ pc = "create.append"
  /\ LET children == convertContentToBlocks(cleanedPost.text)
         chunk    == Slice(children, i)
     IN  \/ /\ Throw("blocks.children.append", <<pageId>>)
            /\ UNCHANGED <<remote, nextId, i, result>>
         \/ /\ HasPage(remote, pageId)
            /\ remote' = StoreAppend(remote, pageId, nextId, chunk)
            /\ nextId' = nextId + Len(chunk)
            /\ i' = i + MAX_CHILDREN
            /\ IF i + MAX_CHILDREN < Len(children)
               THEN pc' = "create.append" /\ result' = result
               ELSE pc' = "sleep" /\ result' = [result EXCEPT !.created = @ + 1]
            /\ calls' = Append(calls, Call("blocks.children.append", <<pageId>>, chunk, TRUE))
            /\ UNCHANGED <<error, raised>>
  /\ UNCHANGED <<pool, pure, inputs, cache, properties, files, walk, posts, links, existing,
                 currentIndex, cleanedPost, action, pageId, printed>>

(***************************************************************************)
(* syncLinks.                                                               *)
(***************************************************************************)
FetchLinks ==
  /\ pc = "fetch"
  /\ args.command = "links"
  /\ \/ /\ links' = typecho.links
        /\ result' = [result EXCEPT !.total = Len(typecho.links)]
        /\ pc' = IF Len(typecho.links) = 0 THEN "exit0" ELSE "ensure"
        /\ UNCHANGED <<error, calls>>
     \/ /\ Fatal("typecho")
        /\ UNCHANGED <<links, result>>
  /\ UNCHANGED <<pool, pure, inputs, cache, store, files, walk, posts, existing, currentIndex,
                 cleanedPost, action, i, pageId, printed, raised>>

\* Mutant: a link found in the map is skipped.
NextLinkSkipsPresent ==
  /\ pc = "loop"
  /\ args.command = "links"
  /\ currentIndex < Len(links)
  /\ currentIndex' = currentIndex + 1
  /\ IF links[currentIndex + 1].url \in DOMAIN existing
     THEN pc' = "loop" /\ result' = [result EXCEPT !.skipped = @ + 1]
     ELSE pc' = "links.create" /\ result' = result
  /\ UNCHANGED <<pool, pure, inputs, cache, store, files, walk, posts, links, existing, cleanedPost,
                 action, i, pageId, error, printed, calls, raised>>

NextLink ==
  /\ pc = "loop"
  /\ args.command = "links"
  /\ currentIndex < Len(links)
  /\ currentIndex' = currentIndex + 1
  /\ pc' = IF links[currentIndex + 1].url \in DOMAIN existing THEN "links.update"
           ELSE "links.create"
  /\ UNCHANGED <<pool, pure, inputs, cache, store, files, walk, posts, links, existing, cleanedPost,
                 action, i, pageId, error, result, printed, calls, raised>>

LinksUpdatePage ==
  /\ pc = "links.update"
  /\ LET link == links[currentIndex]
         pid  == existing[link.url].pageId
     IN  \/ /\ Throw("pages.update", <<pid>>)
            /\ UNCHANGED <<remote, result>>
         \/ /\ HasPage(remote, pid)
            /\ remote' = StoreUpdate(remote, pid, link.url, <<>>)
            /\ result' = [result EXCEPT !.updated = @ + 1]
            /\ calls' = Append(calls, Call("pages.update", <<pid>>, <<>>, TRUE))
            /\ pc' = "sleep"
            /\ UNCHANGED <<error, raised>>
  /\ UNCHANGED <<pool, pure, inputs, cache, properties, nextId, files, walk, posts, links, existing,
                 currentIndex, cleanedPost, action, i, pageId, printed>>

LinksCreatePage ==
  /\ pc = "links.create"
  /\ LET link == links[currentIndex]
     IN  \/ /\ Throw("pages.create", <<>>)
            /\ UNCHANGED <<remote, result>>
         \/ /\ remote' = StoreCreate(remote, link.url, <<>>, nextId, <<>>)
            /\ result' = [result EXCEPT !.created = @ + 1]
            /\ calls' = Append(calls, Call("pages.create", <<>>, <<>>, TRUE))
            /\ pc' = "sleep"
            /\ UNCHANGED <<error, raised>>
  /\ UNCHANGED <<pool, pure, inputs, cache, properties, nextId, files, walk, posts, links, existing,
                 currentIndex, cleanedPost, action, i, pageId, printed>>

(***************************************************************************)
(* exportToMarkdown.                                                        *)
(***************************************************************************)
extractModifiedFromFrontmatter(file) == file.modified

writeMarkdownFile(fs, post) ==
  LET name == generateFilename(post)
  IN  [f \in (DOMAIN fs) \cup {name} |->
         IF f = name
         THEN [modified |-> ToISOString(post.modified * 1000), text |-> post.text]
         ELSE fs[f]]

\* Mutant: a file as recent as the post is rewritten.
exportPostStrict(fs, post) ==
  LET name == generateFilename(post)
  IN  IF name \in DOMAIN fs
      THEN IF /\ extractModifiedFromFrontmatter(fs[name]) # <<>>
              /\ ToISOString(post.modified * 1000) # extractModifiedFromFrontmatter(fs[name])
              /\ StrLE(ToISOString(post.modified * 1000),
                       extractModifiedFromFrontmatter(fs[name]))
           THEN [action |-> "skipped", files |-> fs]
           ELSE [action |-> "updated", files |-> writeMarkdownFile(fs, post)]
      ELSE [action |-> "created", files |-> writeMarkdownFile(fs, post)]

\* MarkdownExporter.exportPost: the action it reports and the directory after it.
exportPost(fs, post) ==
  LET name == generateFilename(post)
  IN  IF name \in DOMAIN fs
      THEN IF /\ extractModifiedFromFrontmatter(fs[name]) # <<>>
              /\ StrLE(ToISOString(post.modified * 1000),
                       extractModifiedFromFrontmatter(fs[name]))
           THEN [action |-> "skipped", files |-> fs]
           ELSE [action |-> "updated", files |-> writeMarkdownFile(fs, post)]
      ELSE [action |-> "created", files |-> writeMarkdownFile(fs, post)]

NextExport ==
  /\ pc = "loop"
  /\ args.command = "markdown"
  /\ currentIndex < Len(posts)
  /\ currentIndex' = currentIndex + 1
  /\ pc' = "export.first"
  /\ UNCHANGED <<pool, pure, inputs, cache, store, files, walk, posts, links, existing, cleanedPost,
                 action, i, pageId, error, result, printed, calls, raised>>

\* The first exportPost call, on the post as fetched.
ExportFirst ==
  /\ pc = "export.first"
  /\ LET done == exportPost(files, posts[currentIndex])
     IN  \/ /\ Throw("exportPost", <<>>)
            /\ UNCHANGED <<files, action, result>>
         \/ /\ files' = done.files
            /\ action' = done.action
            /\ IF done.action = "skipped"
               THEN pc' = "loop" /\ result' = [result EXCEPT !.skipped = @ + 1]
               ELSE pc' = "clean" /\ result' = result
            /\ calls' = Append(calls, Call("exportPost", <<>>, <<>>, TRUE))
            /\ UNCHANGED <<error, raised>>
  /\ UNCHANGED <<pool, pure, inputs, cache, store, walk, posts, links, existing, currentIndex,
                 cleanedPost, i, pageId, printed>>

\* The second exportPost call, on the cleaned post.
ExportCleaned ==
  /\ pc = "export"
  /\ \/ /\ Throw("exportPost", <<>>)
        /\ UNCHANGED <<files, result>>
     \/ /\ files' = exportPost(files, cleanedPost).files
        /\ result' = IF action = "created" THEN [result EXCEPT !.created = @ + 1]
                     ELSE IF action = "updated" THEN [result EXCEPT !.updated = @ + 1]
                     ELSE result
        /\ pc' = "loop"
        /\ calls' = Append(calls, Call("exportPost", <<>>, <<>>, TRUE))
        /\ UNCHANGED <<error, raised>>
  /\ UNCHANGED <<pool, pure, inputs, cache, store, walk, posts, links, existing, currentIndex,
                 cleanedPost, action, i, pageId, printed>>

Sleep ==
  /\ pc = "sleep"
  /\ calls' = Append(calls, Call("sleep", <<SLEEP_MS>>, <<>>, TRUE))
  /\ pc' = "loop"
  /\ UNCHANGED <<pool, pure, inputs, cache, store, files, walk, locals, result, printed, raised>>

\* Mutant: the catch rethrows.
CatchRethrow ==
  /\ pc = "catch"
  /\ pc' = "exit1"
  /\ UNCHANGED <<pool, pure, inputs, cache, store, files, walk, locals, result, printed, calls, raised>>

\* Mutant: the failure is counted, the error is not kept.
CatchNoRecord ==
  /\ pc = "catch"
  /\ result' = [result EXCEPT !.failed = @ + 1]
  /\ pc' = "loop"
  /\ UNCHANGED <<pool, pure, inputs, cache, store, files, walk, locals, printed, calls, raised>>

\* The per-entity catch.
Catch ==
  /\ pc = "catch"
  /\ result' = [result EXCEPT !.failed = @ + 1,
                              !.errors = Append(@, [title |-> Label, error |-> error])]
  /\ pc' = "loop"
  /\ UNCHANGED <<pool, pure, inputs, cache, store, files, walk, locals, printed, calls, raised>>

LoopDone ==
  /\ pc = "loop"
  /\ currentIndex = Len(Entities)
  /\ pc' = "summary"
  /\ UNCHANGED <<pool, pure, inputs, cache, store, files, walk, locals, result, printed, calls, raised>>

PrintSummary ==
  /\ pc = "summary"
  /\ printed' = <<result>>
  /\ pc' = "exit0"
  /\ UNCHANGED <<pool, pure, inputs, cache, store, files, walk, locals, result, calls, raised>>

Next ==
  \/ LoadConfig \/ Main \/ FetchPosts \/ EnsureDatabaseProperties \/ QueryExisting
  \/ Decide \/ CleanBrokenImageLinks
  \/ PagesUpdate \/ ListChildren \/ DeleteBlock \/ AppendChunk
  \/ PagesCreate \/ CreateAppend
  \/ FetchLinks \/ NextLink \/ LinksUpdatePage \/ LinksCreatePage
  \/ NextExport \/ ExportFirst \/ ExportCleaned
  \/ Sleep \/ Catch \/ LoopDone \/ PrintSummary

Spec == Init /\ [][Next]_vars

\* Every request is answered or fails: a run does not stop between two steps.
FairSpec == Init /\ [][Next]_vars /\ WF_vars(Next)

(***************************************************************************)
(* Views of the history used by the properties.                             *)
(***************************************************************************)
WriteOps == {"pages.create", "pages.update", "blocks.children.append", "blocks.delete"}

\* The calls issued while entity k was being processed, in order.
CallsOf(k) == LET Mine(c) == c.ent = k IN SelectSeq(calls, Mine)

OpsOf(k, ops) == LET Mine(c) == c.ent = k /\ c.op \in ops IN SelectSeq(calls, Mine)

\* The concatenation of the blocks of a short sequence of calls.
RECURSIVE Flatten(_)
Flatten(cs) == IF cs = <<>> THEN <<>> ELSE Head(cs).blocks \o Flatten(Tail(cs))

Sizes(cs) == [k \in 1..Len(cs) |-> Len(cs[k].blocks)]

Contents(blocks) == [k \in 1..Len(blocks) |-> blocks[k].content]

Document == convertContentToBlocks(cleanedPost.text)

Creating == args.command = "posts" /\ currentIndex >= 1
            /\ posts[currentIndex].slug \notin DOMAIN existing

Updating == args.command = "posts" /\ currentIndex >= 1
            /\ posts[currentIndex].slug \in DOMAIN existing

(***************************************************************************)
(* C1.  createPage on a document of n blocks issues one create call with   *)
(* the first min(n, 100) blocks and then ceil(max(n - 100, 0) / 100)        *)
(* append calls of at most 100 blocks, in order, whose chunks concatenate   *)
(* to the document; no append precedes the create; 250 blocks make the      *)
(* three calls 100, 100, 50.                                                *)
(***************************************************************************)
CreateProtocol ==
  /\ (Creating /\ pc = "create.append") =>
        /\ Len(CallsOf(currentIndex)) >= 1
        /\ CallsOf(currentIndex)[1].op = "pages.create"
        /\ CallsOf(currentIndex)[1].ok
  /\ (Creating /\ pc = "sleep") =>
        LET n == Len(Document)
            w == OpsOf(currentIndex, WriteOps)
        IN  /\ Len(w) = 1 + ((IF n > 100 THEN n - 100 ELSE 0) + 99) \div 100
            /\ w[1].op = "pages.create"
            /\ w[1].blocks = SubSeq(Document, 1, IF n < 100 THEN n ELSE 100)
            /\ \A j \in 2..Len(w) :
                  /\ w[j].op = "blocks.children.append"
                  /\ w[j].target = <<pageId>>
                  /\ Len(w[j].blocks) \in 1..100
            /\ \A j \in 1..Len(w) : w[j].ok
            /\ Flatten(w) = Document
            /\ (n = 250 => Sizes(w) = <<100, 100, 50>>)

CreateProtocolWitness ==
  Creating /\ pc = "sleep" /\ Len(Document) = 250

(***************************************************************************)
(* C2.  In replacePageContent every listing call and every delete comes    *)
(* before the first append: the listing is walked from no cursor, 100 at    *)
(* a time, until a response reports no further page; every listed block is *)
(* deleted by a call of its own, in listing order; then the document is     *)
(* appended in chunks of at most 100, in order.                             *)
(***************************************************************************)
ReplaceOrder ==
  /\ \A a \in 1..(Len(calls) - 1) :
        (calls[a].op = "blocks.children.append" /\ calls[a + 1].ent = calls[a].ent)
           => calls[a + 1].op \in {"blocks.children.append", "sleep"}
  /\ (Updating /\ pc \in {"append", "sleep"}) =>
        LET lists == OpsOf(currentIndex, {"blocks.children.list"})
            dels  == OpsOf(currentIndex, {"blocks.delete"})
        IN  /\ Len(lists) >= 1
            /\ lists[1].target = <<>>
            /\ \A j \in 1..Len(lists) :
                  /\ Len(lists[j].blocks) <= 100
                  /\ lists[j].more = (j < Len(lists))
            /\ [k \in 1..Len(dels) |-> dels[k].target] =
                 [k \in 1..Len(Flatten(lists)) |-> <<Flatten(lists)[k]>>]
            /\ \A k \in 1..Len(dels) : dels[k].ok
  /\ (Updating /\ pc = "sleep") =>
        LET w == OpsOf(currentIndex, {"blocks.children.append"})
        IN  /\ \A j \in 1..Len(w) : Len(w[j].blocks) \in 1..100
            /\ Flatten(w) = Document

ReplaceOrderWitness ==
  /\ Updating /\ pc = "sleep"
  /\ Len(OpsOf(currentIndex, {"blocks.children.list"})) = 3
  /\ Len(OpsOf(currentIndex, {"blocks.children.append"})) = 3

(***************************************************************************)
(* C3.  When updatePage has completed, the children of the page are the    *)
(* blocks of the new document, in document order, and nothing else,        *)
(* however many children the page had.                                      *)
(***************************************************************************)
ReplacedWholesale ==
  (Updating /\ pc = "sleep") =>
     Contents(Children(existing[cleanedPost.slug].pageId)) = Document

ReplacedWholesaleWitness ==
  /\ Updating /\ pc = "sleep"
  /\ Len(OpsOf(currentIndex, {"blocks.delete"})) > 200
  /\ Len(Document) >= 100

(***************************************************************************)
(* Views of the per-post decision.                                          *)
(***************************************************************************)
Present(k) == posts[k].slug \in DOMAIN existing

Marker(k) == existing[posts[k].slug].modified

\* The source instant is strictly later than the instant the marker
\* records; a page without a marker has never been written completely.
Stale(k) == Marker(k) = <<>> \/ posts[k].modified > InstantOf(Marker(k))

\* Entity k has been dealt with: the loop has moved on or is about to.
Processed(k) == k < currentIndex \/ (k = currentIndex /\ pc \in {"loop", "summary", "exit0"})

Returned(k, ops) == LET Mine(c) == c.ent = k /\ c.ok /\ c.op \in ops IN SelectSeq(calls, Mine)

Failures(k) == LET Mine(c) == c.ent = k /\ ~c.ok IN SelectSeq(calls, Mine)

(***************************************************************************)
(* C4.  A post whose source instant equals the instant of the remote       *)
(* Modified marker is skipped; a post goes on to be updated only if its     *)
(* source instant is strictly later than the marker.                        *)
(***************************************************************************)
StalenessTieBreak ==
  (Updating /\ Marker(currentIndex) # <<>>) =>
     /\ pc = "clean" => posts[currentIndex].modified > InstantOf(Marker(currentIndex))
     /\ (pc = "loop" /\ CallsOf(currentIndex) = <<>>) =>
           posts[currentIndex].modified <= InstantOf(Marker(currentIndex))

(***************************************************************************)
(* C5.  For every post exactly one action is chosen from the map queried   *)
(* before the loop: absent, createPage and never updatePage; present and    *)
(* stale, updatePage on the recorded page and never createPage; present     *)
(* and fresh, no remote write at all.                                       *)
(***************************************************************************)
PerEntityStateMachine ==
  args.command = "posts" =>
     /\ \A k \in 1..currentIndex :
           /\ ~Present(k) => OpsOf(k, WriteOps \ {"pages.create", "blocks.children.append"}) = <<>>
           /\ Present(k) =>
                 /\ OpsOf(k, {"pages.create"}) = <<>>
                 /\ \A j \in 1..Len(OpsOf(k, {"pages.update"})) :
                       OpsOf(k, {"pages.update"})[j].target = <<existing[posts[k].slug].pageId>>
           /\ (Present(k) /\ ~Stale(k)) => OpsOf(k, WriteOps) = <<>>
           /\ Len(OpsOf(k, {"pages.create", "pages.update"})) <= 1
           /\ (Processed(k) /\ (~Present(k) \/ Stale(k))) =>
                 Len(OpsOf(k, {"pages.create", "pages.update"})) = 1
     /\ pc \in {"create", "create.append"} => ~Present(currentIndex)
     /\ pc \in {"update", "list", "delete", "append"} =>
           Present(currentIndex) /\ Stale(currentIndex)

(***************************************************************************)
(* C6.  An exception raised while one entity is processed is caught at     *)
(* that entity, recorded, and the loop goes on: no such exception ends the  *)
(* run, the loop ends only when every fetched entity has been processed,    *)
(* and a step is always possible until then.                                *)
(***************************************************************************)
FailureIsolation ==
  /\ pc = "exit1" => raised = <<>> /\ currentIndex = 0
  /\ pc \in {"summary", "exit0"} /\ Len(Entities) > 0 =>
        /\ currentIndex = Len(Entities)
        /\ Len(result.errors) = Len(raised)
  /\ \A k \in 1..currentIndex : Len(Failures(k)) <= 1
  /\ \A k \in 1..(currentIndex - 1) :
        Failures(k) # <<>> => \E j \in 1..Len(result.errors) :
                                 result.errors[j].error = Failures(k)[1].op
  /\ pc \notin {"exit0", "exit1"} => ENABLED Next

FailureIsolationWitness ==
  /\ pc = "summary"
  /\ Len(Entities) >= 2
  /\ Failures(1) # <<>>
  /\ Failures(2) = <<>>
  /\ result.created + result.updated >= 1

(***************************************************************************)
(* C7.  When the loop has finished, errors holds one (label, message) pair *)
(* for every per-entity failure in processing order, failed is the length   *)
(* of that list, and created + updated + skipped + failed is total; after   *)
(* each entity the four counters sum to the number processed so far.        *)
(***************************************************************************)
SummaryAccounting ==
  /\ pc \in {"loop", "summary"} =>
        /\ result.errors = raised
        /\ result.failed = Len(result.errors)
        /\ result.created + result.updated + result.skipped + result.failed = currentIndex
  /\ pc = "summary" =>
        /\ result.total = Len(Entities)
        /\ result.created + result.updated + result.skipped + result.failed = result.total
  /\ (pc = "exit0" /\ printed # <<>>) =>
        /\ printed = <<result>>
        /\ result.errors = raised
        /\ result.created + result.updated + result.skipped + result.failed = result.total

SummaryAccountingWitness ==
  /\ pc = "summary"
  /\ result.failed >= 1
  /\ result.skipped >= 1

(***************************************************************************)
(* C8.  The exit status is 1 only when the configuration is missing or     *)
(* invalid or a call made before the loop failed; a run whose entities      *)
(* fail, some or all, still prints the summary and exits with 0.            *)
(***************************************************************************)
SetupOps == {"typecho", "databases.retrieve", "databases.update", "databases.query",
             "Image property exists but has wrong type"}

ExitStatus ==
  /\ pc = "exit1" =>
        /\ printed = <<>>
        /\ \A a \in 1..Len(calls) : ~calls[a].ok => calls[a].ent = 0
        /\ \/ ~env.notion \/ ~env.typecho \/ ~env.adapter
           \/ args.command = "links" /\ ~env.links
           \/ /\ calls # <<>>
              /\ ~calls[Len(calls)].ok
              /\ calls[Len(calls)].op \in SetupOps
  /\ (\E a \in 1..Len(calls) : ~calls[a].ok /\ calls[a].ent >= 1) =>
        /\ pc # "exit1"
        /\ pc = "exit0" => printed = <<result>> /\ result.failed >= 1

ExitStatusWitness ==
  /\ pc = "exit0"
  /\ result.total >= 2
  /\ result.failed = result.total
  /\ printed = <<result>>

(***************************************************************************)
(* C9.  Entities are processed one after the other, and every remote       *)
(* write to an entity, a create or an update attempt, is followed by the    *)
(* fixed delay before the next entity is taken up.                          *)
(***************************************************************************)
DelayAfterWrite ==
  /\ \A a \in 1..(Len(calls) - 1) : calls[a].ent <= calls[a + 1].ent
  /\ args.command \in {"posts", "links"} =>
        \A k \in 1..currentIndex :
           (Processed(k) /\ Returned(k, WriteOps) # <<>>) =>
              LET mine == CallsOf(k)
              IN  /\ mine[Len(mine)].op = "sleep"
                  /\ mine[Len(mine)].target = <<350>>

(***************************************************************************)
(* C10.  A list, delete or append call that fails inside updatePage ends   *)
(* the work on that post: the post is counted in failed and listed in       *)
(* errors with its title, it is not counted in updated, no further call is  *)
(* made for it, and the blocks deleted before stay deleted.                 *)
(***************************************************************************)
ReplaceOps == {"blocks.children.list", "blocks.delete", "blocks.children.append"}

Completed(k) == OpsOf(k, {"sleep"}) # <<>>

NonTransactionalVisible ==
  (args.command = "posts" /\ pc \in {"loop", "summary", "exit0"}) =>
     /\ result.updated = Cardinality({k \in 1..currentIndex : Present(k) /\ Completed(k)})
     /\ \A k \in 1..currentIndex :
           (Present(k) /\ Failures(k) # <<>> /\ Failures(k)[1].op \in ReplaceOps) =>
              LET mine == CallsOf(k)
                  pid  == existing[posts[k].slug].pageId
                  dels == OpsOf(k, {"blocks.delete"})
              IN  /\ ~mine[Len(mine)].ok
                  /\ ~Completed(k)
                  /\ \E j \in 1..Len(result.errors) :
                        result.errors[j] = [title |-> posts[k].title,
                                            error |-> Failures(k)[1].op]
                  /\ result.failed >= 1
                  /\ \A d \in 1..Len(dels) :
                        dels[d].ok =>
                          \A b \in 1..Len(Children(pid)) :
                             <<Children(pid)[b].id>> # dels[d].target

NonTransactionalVisibleWitness ==
  /\ args.command = "posts" /\ pc = "loop" /\ currentIndex >= 1
  /\ Present(currentIndex)
  /\ Failures(currentIndex) # <<>>
  /\ Failures(currentIndex)[1].op = "blocks.children.append"
  /\ Len(OpsOf(currentIndex, {"blocks.delete"})) >= 100
  /\ Len(OpsOf(currentIndex, {"blocks.children.append"})) >= 2
  /\ Len(Children(existing[posts[currentIndex].slug].pageId)) = 100

(***************************************************************************)
(* The image checker: cleanBrokenImageLinks and runWithConcurrencyLimit.    *)
(* A promise is the number of its item.  The function runs from one await   *)
(* to the next without interruption; a check settles only while the         *)
(* function is suspended on a promise that is still pending.                *)
(***************************************************************************)
MaxUrls == 12

MAX_CONCURRENT_CHECKS == 10

\* The synchronisation is at rest while a batch or a pure function is examined.
SyncIdle ==
  Start(GoodEnv, Args("posts", FALSE, FALSE, TRUE, FALSE), <<>>, Database(0),
        REQUIRED_PROPERTIES, <<>>, <<>>)

\* A text with n image URLs, of which the last, all or none are broken.
PoolInit ==
  /\ SyncIdle
  /\ PureIdle
  /\ ppc = "call"
  /\ checkLinks \in BOOLEAN
  /\ \E n \in 0..MaxUrls :
        /\ items = [k \in 1..n |-> k]
        /\ brokenUrls \in {{}, {n} \cap (1..n), 1..n}
  /\ index = 0 /\ executing = <<>> /\ validityResults = <<>> /\ settled = {}
  /\ removed = {}

Members(seq) == {seq[k] : k \in 1..Len(seq)}

\* The checks started and not yet resolved.
InFlight == (1..index) \ settled

\* The promise the function is suspended on can resume it.
Resumable ==
  \/ ppc = "race" /\ Members(executing) \cap settled # {}
  \/ ppc = "all" /\ Members(executing) \subseteq settled

\* cleanBrokenImageLinks up to the call of runWithConcurrencyLimit.
CleanCall ==
  /\ ppc = "call"
  /\ ppc' = IF ~checkLinks \/ Len(items) = 0 THEN "returned" ELSE "loop"
  /\ UNCHANGED <<sync, pure, checkLinks, items, brokenUrls, index, executing, validityResults,
                 settled, removed>>

\* One iteration of the for loop up to its await: fn(item) starts the check.
StartCheck ==
  /\ ppc = "loop"
  /\ index < Len(items)
  /\ index' = index + 1
  /\ executing' = Append(executing, index + 1)
  /\ ppc' = IF Len(executing) + 1 >= MAX_CONCURRENT_CHECKS THEN "race" ELSE "loop"
  /\ UNCHANGED <<sync, pure, checkLinks, items, brokenUrls, validityResults, settled, removed>>

\* After the loop: await Promise.all(executing).
AwaitAll ==
  /\ ppc = "loop"
  /\ index = Len(items)
  /\ ppc' = "all"
  /\ UNCHANGED <<sync, pure, checkLinks, items, brokenUrls, index, executing, validityResults,
                 settled, removed>>

\* A check resolves and its then callback stores the result.
Settle ==
  /\ ppc \in {"race", "all"}
  /\ ~Resumable
  /\ \E k \in InFlight :
        /\ settled' = settled \cup {k}
        /\ validityResults' = [j \in (DOMAIN validityResults) \cup {k} |->
                                 IF j = k THEN k \notin brokenUrls ELSE validityResults[j]]
  /\ UNCHANGED <<sync, pure, ppc, checkLinks, items, brokenUrls, index, executing, removed>>

\* Promise.race has resolved: executing.splice(findIndex(p === promise), 1),
\* promise being the one of the current iteration.
RaceResolved ==
  /\ ppc = "race"
  /\ Resumable
  /\ LET Other(p) == p # index
     IN  executing' = SelectSeq(executing, Other)
  /\ ppc' = "loop"
  /\ UNCHANGED <<sync, pure, checkLinks, items, brokenUrls, index, validityResults, settled, removed>>

AllResolved ==
  /\ ppc = "all"
  /\ Resumable
  /\ ppc' = "clean"
  /\ UNCHANGED <<sync, pure, checkLinks, items, brokenUrls, index, executing, validityResults,
                 settled, removed>>

\* The length of the results array: one more than the last index assigned.
ArrayLength(arr) ==
  IF DOMAIN arr = {} THEN 0 ELSE CHOOSE k \in DOMAIN arr : \A j \in DOMAIN arr : j <= k

\* for (const result of validityResults): an index never assigned yields
\* undefined, and result.isValid throws a TypeError.
RemoveBroken ==
  /\ ppc = "clean"
  /\ IF \E k \in 1..ArrayLength(validityResults) : k \notin DOMAIN validityResults
     THEN ppc' = "threw" /\ removed' = removed
     ELSE /\ ppc' = "returned"
          /\ removed' = {k \in DOMAIN validityResults : ~validityResults[k]}
  /\ UNCHANGED <<sync, pure, checkLinks, items, brokenUrls, index, executing, validityResults, settled>>

PoolNext ==
  \/ CleanCall \/ StartCheck \/ AwaitAll \/ Settle \/ RaceResolved \/ AllResolved
  \/ RemoveBroken

PoolSpec == PoolInit /\ [][PoolNext]_vars

(***************************************************************************)
(* C11.  At no moment are more than 10 of the checks started by            *)
(* runWithConcurrencyLimit in flight.                                       *)
(***************************************************************************)
InFlightBounded == Cardinality(InFlight) <= 10

(***************************************************************************)
(* C12.  A check that is slow or fails makes only its own URL invalid: the *)
(* batch never throws, and a batch that has returned removed no URL whose   *)
(* check succeeded.                                                         *)
(***************************************************************************)
NoCancellation ==
  /\ ppc # "threw"
  /\ ppc = "returned" => removed \subseteq brokenUrls

(***************************************************************************)
(* checkImageUrl.  A URL is a number; the network is a script giving, for   *)
(* URL u, what a request to it meets; a redirect's location is URL u + 1.   *)
(***************************************************************************)
MaxChain == 5

MAX_REDIRECTS == 3

Response(status, location) == [kind |-> "response", status |-> status, location |-> location]

Failure(kind) == [kind |-> kind, status |-> 0, location |-> FALSE]

RedirectCodes == {301, 302, 307, 308}

\* What ends a chain: a status with no location to follow, a request error,
\* the timeout, or a URL that new URL() rejects.
Finals ==
  {Response(st, FALSE) : st \in {200, 404, 303, 0, 301, 308}}
    \cup {Failure("error"), Failure("timeout"), Failure("invalid")}

\* r redirects with a location, then a final.
Scripts ==
  {[k \in 1..(r + 1) |-> IF k <= r THEN Response(code, TRUE) ELSE final] :
     r \in 0..MaxChain, code \in RedirectCodes, final \in Finals}

\* Mutant: one more redirect is followed.
RECURSIVE checkImageUrlOneMore(_, _, _)
checkImageUrlOneMore(url, redirectCount, net) ==
  LET res == net[url]
      bad(text, n) == [url |-> url, isValid |-> FALSE, statusCode |-> <<>>, error |-> text,
                       requests |-> n]
  IN  IF res.kind = "invalid" THEN bad(<<"Invalid URL">>, 0)
      ELSE IF res.kind = "error" THEN bad(<<"err.message">>, 1)
      ELSE IF res.kind = "timeout" THEN bad(<<"Timeout (30s)">>, 1)
      ELSE IF res.status \in RedirectCodes /\ redirectCount <= MAX_REDIRECTS /\ res.location
           THEN [checkImageUrlOneMore(url + 1, redirectCount + 1, net)
                   EXCEPT !.requests = @ + 1]
           ELSE [url |-> url, isValid |-> res.status = 200, statusCode |-> <<res.status>>,
                 error |-> IF res.status = 200 THEN <<>> ELSE <<"HTTP", res.status>>,
                 requests |-> 1]

\* checkImageUrl(url, redirectCount): the value the promise resolves with,
\* and with it the number of requests issued (requests is not part of the
\* result).
RECURSIVE checkImageUrl(_, _, _)
checkImageUrl(url, redirectCount, net) ==
  LET res == net[url]
      bad(text, n) == [url |-> url, isValid |-> FALSE, statusCode |-> <<>>, error |-> text,
                       requests |-> n]
  IN  IF res.kind = "invalid" THEN bad(<<"Invalid URL">>, 0)
      ELSE IF res.kind = "error" THEN bad(<<"err.message">>, 1)
      ELSE IF res.kind = "timeout" THEN bad(<<"Timeout (30s)">>, 1)
      ELSE IF res.status \in RedirectCodes /\ redirectCount < MAX_REDIRECTS /\ res.location
           THEN [checkImageUrl(url + 1, redirectCount + 1, net) EXCEPT !.requests = @ + 1]
           ELSE [url |-> url, isValid |-> res.status = 200, statusCode |-> <<res.status>>,
                 error |-> IF res.status = 200 THEN <<>> ELSE <<"HTTP", res.status>>,
                 requests |-> 1]

(***************************************************************************)
(* Strings are sequences of characters.                                     *)
(***************************************************************************)
LowerLetters == {"a", "b", "c", "d", "e", "f", "g", "h", "i", "j", "k", "l", "m",
                 "n", "o", "p", "q", "r", "s", "t", "u", "v", "w", "x", "y", "z"}

UpperLetters == {"A", "B", "C", "D", "E", "F", "G", "H", "I", "J", "K", "L", "M",
                 "N", "O", "P", "Q", "R", "S", "T", "U", "V", "W", "X", "Y", "Z"}

Letters == LowerLetters \cup UpperLetters

Alnum == Letters \cup {"0", "1", "2", "3", "4", "5", "6", "7", "8", "9"}

\* \s, as far as the inputs go.
IsSpace(c) == c \in {" ", "\t", "\r"}

StartsWith(str, prefix) ==
  Len(str) >= Len(prefix) /\ SubSeq(str, 1, Len(prefix)) = prefix

\* str.slice(n)
Drop(str, n) == SubSeq(str, n + 1, Len(str))

\* The position of the first character from position from on that is in
\* the set, 0 if there is none.
FirstIn(str, from, set) ==
  LET hits == {k \in from..Len(str) : str[k] \in set}
  IN  IF hits = {} THEN 0 ELSE CHOOSE k \in hits : \A j \in hits : k <= j

\* str.trim()
Trim(str) ==
  LET solid == {k \in 1..Len(str) : ~IsSpace(str[k])}
  IN  IF solid = {} THEN <<>>
      ELSE SubSeq(str, CHOOSE k \in solid : \A j \in solid : k <= j,
                       CHOOSE k \in solid : \A j \in solid : j <= k)

\* str.replace(/pattern/g, replacement) for a literal pattern: one pass from
\* the left, the replacement is not scanned again.
RECURSIVE ReplaceAll(_, _, _)
ReplaceAll(str, pattern, replacement) ==
  IF Len(str) < Len(pattern) THEN str
  ELSE IF StartsWith(str, pattern)
       THEN replacement \o ReplaceAll(Drop(str, Len(pattern)), pattern, replacement)
       ELSE <<Head(str)>> \o ReplaceAll(Tail(str), pattern, replacement)

RECURSIVE Concat(_)
Concat(strs) == IF strs = <<>> THEN <<>> ELSE Head(strs) \o Concat(Tail(strs))

(***************************************************************************)
(* sanitizeUrl.                                                             *)
(***************************************************************************)
Null == <<"null">>

\* /^[a-zA-Z][a-zA-Z0-9+.-]*:/
HasScheme(str) ==
  LET colon == FirstIn(str, 1, {":"})
  IN  /\ colon >= 2
      /\ str[1] \in Letters
      /\ \A k \in 2..(colon - 1) : str[k] \in Alnum \cup {"+", ".", "-"}

\* /^[a-zA-Z0-9][a-zA-Z0-9-]*\.[a-zA-Z]{2,}/
LooksLikeHost(str) ==
  LET dot == FirstIn(str, 1, {"."})
  IN  /\ dot >= 2
      /\ str[1] \in Alnum
      /\ \A k \in 2..(dot - 1) : str[k] \in Alnum \cup {"-"}
      /\ Len(str) >= dot + 2
      /\ str[dot + 1] \in Letters
      /\ str[dot + 2] \in Letters

SpecialSchemes == {<<"h", "t", "t", "p">>, <<"h", "t", "t", "p", "s">>, <<"f", "t", "p">>, <<"w", "s">>, <<"w", "s", "s">>}

ForbiddenHost == {" ", "\t", "\r", "#", "/", ":", "<", ">", "?", "@", "[", "\\", "]", "^", "|"}

\* new URL(str) does not throw, for a string with a scheme and without
\* credentials, port or percent escapes in the host: a special scheme needs
\* a host, and a host has no forbidden code point.
UrlParses(str) ==
  LET colon   == FirstIn(str, 1, {":"})
      scheme  == SubSeq(str, 1, colon - 1)
      rest    == Drop(str, colon)
      slashes == Cardinality({k \in 1..Len(rest) :
                                \A j \in 1..k : rest[j] \in {"/", "\\"}})
      after   == Drop(rest, slashes)
      stop    == FirstIn(after, 1, {"/", "?", "#"})
      host    == IF stop = 0 THEN after ELSE SubSeq(after, 1, stop - 1)
  IN  IF scheme \in SpecialSchemes
      THEN host # <<>> /\ \A k \in 1..Len(host) : host[k] \notin ForbiddenHost
      ELSE IF StartsWith(rest, <<"/", "/">>)
           THEN LET auth == Drop(rest, 2)
                    end  == FirstIn(auth, 1, {"/", "?", "#"})
                    name == IF end = 0 THEN auth ELSE SubSeq(auth, 1, end - 1)
                IN  \A k \in 1..Len(name) : name[k] \notin ForbiddenHost
           ELSE TRUE

\* The five replacements and the trim of sanitizeUrl.
DecodeEntities(url) ==
  Trim(ReplaceAll(ReplaceAll(ReplaceAll(ReplaceAll(ReplaceAll(url,
         <<"&", "a", "m", "p", ";">>, <<"&">>), <<"&", "l", "t", ";">>, <<"<">>), <<"&", "g", "t", ";">>, <<">">>), <<"&", "q", "u", "o", "t", ";">>, <<"\"">>), <<"&", "#", "3", "9", ";">>, <<"'">>))

sanitizeUrl(url) ==
  IF url = <<>> \/ Trim(url) = <<>> THEN Null
  ELSE LET sanitized == DecodeEntities(url)
       IN  IF sanitized = <<>> \/ StartsWith(sanitized, <<"#">>) \/ StartsWith(sanitized, <<"/">>)
           THEN Null
           ELSE IF ~HasScheme(sanitized)
                THEN IF LooksLikeHost(sanitized)
                     THEN IF UrlParses(<<"h", "t", "t", "p", "s", ":", "/", "/">> \o sanitized)
                          THEN <<"h", "t", "t", "p", "s", ":", "/", "/">> \o sanitized ELSE Null
                     ELSE Null
                ELSE IF UrlParses(sanitized) THEN sanitized ELSE Null

MaxPieces == 3

UrlHeads == {<<"x", ":">>,
             <<"h", "t", "t", "p", ":", "/", "/", "h", ".", "x", "x", "/">>,
             <<"h", ".", "x", "x">>,
             <<"h", ".", "x", "x", "/">>,
             <<"#">>,
             <<"/">>,
             <<>>,
             <<" ">>,
             <<"h">>}

UrlPieces == {<<"&", "a", "m", "p", ";">>,
              <<"a", "m", "p", ";">>,
              <<"l", "t", ";">>,
              <<"&", "g", "t", ";">>,
              <<"&", "q", "u", "o", "t", ";">>,
              <<"&", "#", "3", "9", ";">>,
              <<" ">>,
              <<"a">>}

RECURSIVE Bodies(_, _)
Bodies(pieces, n) ==
  IF n = 0 THEN {<<>>}
  ELSE Bodies(pieces, n - 1)
         \cup {b \o piece : b \in Bodies(pieces, n - 1), piece \in pieces}

Urls == {head \o body : head \in UrlHeads, body \in Bodies(UrlPieces, MaxPieces)}

(***************************************************************************)
(* The token patterns of parseRichText and parseInlineFormat.  A match is   *)
(* the alternative that matched, its first and last position, the text of   *)
(* its group and, for a link, the target.                                   *)
(***************************************************************************)
NoMatch == [kind |-> "none", start |-> 0, end |-> 0, text |-> <<>>, target |-> <<>>]

Match(kind, start, end, text, target) ==
  [kind |-> kind, start |-> start, end |-> end, text |-> text, target |-> target]

At(str, k) == IF k \in 1..Len(str) THEN str[k] ELSE "end"

WordChars == Alnum \cup {"_"}

\* The grave accent, which a string of this language cannot hold.
Backtick == "grave"

\* `([^`]+)`
CodeAt(str, k) ==
  LET close == FirstIn(str, k + 1, {Backtick})
  IN  IF At(str, k) = Backtick /\ close > k + 1
      THEN Match("code", k, close, SubSeq(str, k + 1, close - 1), <<>>)
      ELSE NoMatch

\* \(([^)\s]+)(?:\s+"[^"]*")?\) with the parenthesis at position open: the
\* position of the closing parenthesis, 0 if the pattern does not match.
TargetEnd(str, open) ==
  LET stop  == FirstIn(str, open + 1, {")", " ", "\t", "\r"})
      quote == IF stop = 0 THEN 0
               ELSE CHOOSE q \in stop..(Len(str) + 1) :
                      /\ \A j \in stop..(q - 1) : IsSpace(str[j])
                      /\ ~IsSpace(At(str, q))
      close == IF At(str, quote) = "\"" THEN FirstIn(str, quote + 1, {"\""}) ELSE 0
  IN  IF At(str, open) # "(" \/ stop <= open + 1 THEN 0
      ELSE IF str[stop] = ")" THEN stop
      ELSE IF close > 0 /\ At(str, close + 1) = ")" THEN close + 1
      ELSE 0

\* \[([^\]]*)\]\(([^)\s]+)(?:\s+"[^"]*")?\)
LinkAt(str, k) ==
  LET bracket == FirstIn(str, k + 1, {"]"})
      end     == IF bracket = 0 THEN 0 ELSE TargetEnd(str, bracket + 1)
      stop    == FirstIn(str, bracket + 2, {")", " ", "\t", "\r"})
  IN  IF At(str, k) = "[" /\ end > 0
      THEN Match("link", k, end, SubSeq(str, k + 1, bracket - 1),
                 SubSeq(str, bracket + 2, stop - 1))
      ELSE NoMatch

\* <(https?:\/\/[^>]+)>
AutoLinkAt(str, k) ==
  LET rest   == Drop(str, k)
      prefix == IF StartsWith(rest, <<"h", "t", "t", "p", ":", "/", "/">>) THEN 7
                ELSE IF StartsWith(rest, <<"h", "t", "t", "p", "s", ":", "/", "/">>) THEN 8 ELSE 0
      close  == FirstIn(str, k + prefix + 1, {">"})
  IN  IF At(str, k) = "<" /\ prefix > 0 /\ close > k + prefix + 1
      THEN Match("autolink", k, close, SubSeq(str, k + 1, close - 1), <<>>)
      ELSE NoMatch

\* \*\*(.+?)\*\*, __(.+?)__ and ~~(.+?)~~: the shortest non-empty content.
PairAt(str, k, mark, kind) ==
  LET closes == {j \in (k + 3)..(Len(str) - 1) : str[j] = mark /\ str[j + 1] = mark}
      close  == CHOOSE j \in closes : \A other \in closes : j <= other
  IN  IF At(str, k) = mark /\ At(str, k + 1) = mark /\ closes # {}
      THEN Match(kind, k, close + 1, SubSeq(str, k + 2, close - 1), <<>>)
      ELSE NoMatch

\* (?<!\*)\*([^*]+)\*(?!\*)
StarAt(str, k) ==
  LET close == FirstIn(str, k + 1, {"*"})
  IN  IF /\ At(str, k) = "*" /\ At(str, k - 1) # "*"
         /\ close > k + 1 /\ At(str, close + 1) # "*"
      THEN Match("italic", k, close, SubSeq(str, k + 1, close - 1), <<>>)
      ELSE NoMatch

\* \b_([^_]+)_\b
UnderscoreAt(str, k) ==
  LET close == FirstIn(str, k + 1, {"_"})
  IN  IF /\ At(str, k) = "_" /\ At(str, k - 1) \notin WordChars
         /\ close > k + 1 /\ At(str, close + 1) \notin WordChars
      THEN Match("italic", k, close, SubSeq(str, k + 1, close - 1), <<>>)
      ELSE NoMatch

\* The alternatives in the order of the pattern; links only in tokenRegex.
Alternatives(str, k, withLinks) ==
  (IF withLinks THEN <<CodeAt(str, k), LinkAt(str, k), AutoLinkAt(str, k)>>
   ELSE <<CodeAt(str, k)>>)
    \o <<PairAt(str, k, "*", "bold"), PairAt(str, k, "_", "bold"), StarAt(str, k),
         UnderscoreAt(str, k), PairAt(str, k, "~", "strikethrough")>>

\* The first of the alternatives that matched.
FirstMatch(alts) ==
  LET hits == {a \in 1..Len(alts) : alts[a].kind # "none"}
  IN  IF hits = {} THEN NoMatch ELSE alts[CHOOSE a \in hits : \A b \in hits : a <= b]

MatchAt(str, k, withLinks) == FirstMatch(Alternatives(str, k, withLinks))

\* Of the matches found at the positions, the one at the least position.
Leftmost(found) ==
  LET hits == {k \in DOMAIN found : found[k].kind # "none"}
  IN  IF hits = {} THEN NoMatch ELSE found[CHOOSE k \in hits : \A j \in hits : k <= j]

\* regex.exec from lastIndex on: the leftmost match.
NextMatch(str, lastIndex, withLinks) ==
  Leftmost([k \in (lastIndex + 1)..Len(str) |-> MatchAt(str, k, withLinks)])

(***************************************************************************)
(* parseInlineFormat and parseRichText.  A run is its content, its link    *)
(* (Null for none) and its four flags.                                      *)
(***************************************************************************)
NoFlags == [bold |-> FALSE, italic |-> FALSE, strikethrough |-> FALSE, code |-> FALSE]

Run(content, link, flags) ==
  [content |-> content, link |-> link, bold |-> flags.bold, italic |-> flags.italic,
   strikethrough |-> flags.strikethrough, code |-> flags.code]

FlagsOf(run) ==
  [bold |-> run.bold, italic |-> run.italic, strikethrough |-> run.strikethrough,
   code |-> run.code]

\* { ...inherited, kind: true }
With(flags, kind) == [flags EXCEPT ![kind] = TRUE]

\* What the loop pushed, or the whole text as one run if it pushed nothing.
OrWhole(runs, text, flags) == IF runs = <<>> THEN <<Run(text, Null, flags)>> ELSE runs

\* The text between lastIndex and the match, if there is any.
Before(text, lastIndex, m, flags) ==
  IF m.start > lastIndex + 1
  THEN <<Run(SubSeq(text, lastIndex + 1, m.start - 1), Null, flags)>> ELSE <<>>

\* The text after the last match, if there is any.
Remaining(text, lastIndex, flags) ==
  IF lastIndex < Len(text) THEN <<Run(Drop(text, lastIndex), Null, flags)>> ELSE <<>>

RECURSIVE InlineFrom(_, _, _)
\* One round of the loop of parseInlineFormat with the match m.
InlineStep(text, lastIndex, inherited, m) ==
  IF m.kind = "none" THEN Remaining(text, lastIndex, inherited)
  ELSE Before(text, lastIndex, m, inherited)
         \o <<Run(m.text, Null, With(inherited, m.kind))>>
         \o InlineFrom(text, m.end, inherited)

InlineFrom(text, lastIndex, inherited) ==
  InlineStep(text, lastIndex, inherited, NextMatch(text, lastIndex, FALSE))

parseInlineFormat(text, inherited) ==
  OrWhole(InlineFrom(text, 0, inherited), text, inherited)

\* The parsed items as runs with the link.
Linked(parsed, link) ==
  [k \in 1..Len(parsed) |-> Run(parsed[k].content, link, FlagsOf(parsed[k]))]

\* The parsed items as runs with the flag of the match set.
Styled(parsed, kind) ==
  [k \in 1..Len(parsed) |-> Run(parsed[k].content, Null, With(FlagsOf(parsed[k]), kind))]

\* Mutant: the flag of the enclosing match is not put on the inner runs.
RunsOfMatchInnerOnly(m) ==
  IF m.kind = "code" THEN <<Run(m.text, Null, With(NoFlags, "code"))>>
  ELSE IF m.kind = "link"
  THEN Linked(parseInlineFormat(IF m.text # <<>> THEN m.text ELSE m.target, NoFlags),
              sanitizeUrl(m.target))
  ELSE IF m.kind = "autolink" THEN <<Run(m.text, sanitizeUrl(m.text), NoFlags)>>
  ELSE parseInlineFormat(m.text, NoFlags)

\* The items parseRichText pushes for one match.
RunsOfMatch(m) ==
  IF m.kind = "code" THEN <<Run(m.text, Null, With(NoFlags, "code"))>>
  ELSE IF m.kind = "link"
  THEN Linked(parseInlineFormat(IF m.text # <<>> THEN m.text ELSE m.target, NoFlags),
              sanitizeUrl(m.target))
  ELSE IF m.kind = "autolink" THEN <<Run(m.text, sanitizeUrl(m.text), NoFlags)>>
  ELSE Styled(parseInlineFormat(m.text, With(NoFlags, m.kind)), m.kind)

RECURSIVE RichFrom(_, _)
\* One round of the loop of parseRichText with the match m.
RichStep(text, lastIndex, m) ==
  IF m.kind = "none" THEN Remaining(text, lastIndex, NoFlags)
  ELSE Before(text, lastIndex, m, NoFlags) \o RunsOfMatch(m) \o RichFrom(text, m.end)

RichFrom(text, lastIndex) == RichStep(text, lastIndex, NextMatch(text, lastIndex, TRUE))

parseRichText(text) == OrWhole(RichFrom(text, 0), text, NoFlags)

MaxRich == 4

RichPieces == {<<"*", "*">>, <<"*">>, <<"~", "~">>, <<"a">>, <<" ">>, <<"b", " ", "c">>}

LinkLabels == {<<>>, <<"x">>, <<"*", "x", "*">>, <<"*", "*", "x", "*", "*", " ", "y">>}

LinkTargets == {<<"n", "o", "t", " ", "a", " ", "u", "r", "l">>,
                <<"#", "a">>,
                <<"/", "p">>,
                <<"x", ":", "y">>,
                <<"h", ".", "x", "x">>,
                <<"n", "o", "t", "a">>,
                <<"x", ":", "y", " ", "\"", "t", "\"">>}

\* Texts of styled pieces, and texts of one bracketed link between text.
NestedExample == <<"*", "*", "a", " ", "*", "b", "*", " ", "c", "*", "*">>

RejectedExample == <<"[", "x", "]", "(", "n", "o", "t", " ", "a", " ", "u", "r", "l", ")">>

MaxCode == 5

CodePieces == {<<Backtick>>, <<"*", "*">>, <<"a">>, <<"~", "~">>}

\* A bold marker opens before a code span and closes inside it.
StraddledExample == <<"*", "*", "a", " ", Backtick, "b", "*", "*", " ", "c", Backtick>>

Texts ==
  Bodies(RichPieces, MaxRich)
    \cup {NestedExample, RejectedExample}
    \cup Bodies(CodePieces, MaxCode) \cup {StraddledExample}
    \cup {before \o <<"[">> \o label \o <<"]", "(">> \o target \o <<")">> \o after :
            before \in {<<>>, <<"a", " ">>}, label \in LinkLabels,
            target \in LinkTargets, after \in {<<>>, <<" ", "b">>}}

(***************************************************************************)
(* mapLanguage.                                                             *)
(***************************************************************************)
Alphabet == <<"a", "b", "c", "d", "e", "f", "g", "h", "i", "j", "k", "l", "m", "n", "o", "p", "q", "r", "s", "t", "u", "v", "w", "x", "y", "z">>

Capitals == <<"A", "B", "C", "D", "E", "F", "G", "H", "I", "J", "K", "L", "M", "N", "O", "P", "Q", "R", "S", "T", "U", "V", "W", "X", "Y", "Z">>

\* str.toLowerCase() and, for the inputs, str.toUpperCase()
ToLowerCase(str) ==
  [k \in 1..Len(str) |->
     IF str[k] \in UpperLetters
     THEN Alphabet[CHOOSE n \in 1..26 : Capitals[n] = str[k]] ELSE str[k]]

ToUpperCase(str) ==
  [k \in 1..Len(str) |->
     IF str[k] \in LowerLetters
     THEN Capitals[CHOOSE n \in 1..26 : Alphabet[n] = str[k]] ELSE str[k]]

SUPPORTED_LANGUAGES ==
  {<<"a", "b", "a", "p">>,
   <<"a", "g", "d", "a">>,
   <<"a", "r", "d", "u", "i", "n", "o">>,
   <<"a", "s", "c", "i", "i", " ", "a", "r", "t">>,
   <<"a", "s", "s", "e", "m", "b", "l", "y">>,
   <<"b", "a", "s", "h">>,
   <<"b", "a", "s", "i", "c">>,
   <<"b", "n", "f">>,
   <<"c">>,
   <<"c", "#">>,
   <<"c", "+", "+">>,
   <<"c", "l", "o", "j", "u", "r", "e">>,
   <<"c", "o", "f", "f", "e", "e", "s", "c", "r", "i", "p", "t">>,
   <<"c", "o", "q">>,
   <<"c", "s", "s">>,
   <<"d", "a", "r", "t">>,
   <<"d", "h", "a", "l", "l">>,
   <<"d", "i", "f", "f">>,
   <<"d", "o", "c", "k", "e", "r">>,
   <<"e", "b", "n", "f">>,
   <<"e", "l", "i", "x", "i", "r">>,
   <<"e", "l", "m">>,
   <<"e", "r", "l", "a", "n", "g">>,
   <<"f", "#">>,
   <<"f", "l", "o", "w">>,
   <<"f", "o", "r", "t", "r", "a", "n">>,
   <<"g", "h", "e", "r", "k", "i", "n">>,
   <<"g", "l", "s", "l">>,
   <<"g", "o">>,
   <<"g", "r", "a", "p", "h", "q", "l">>,
   <<"g", "r", "o", "o", "v", "y">>,
   <<"h", "a", "s", "k", "e", "l", "l">>,
   <<"h", "c", "l">>,
   <<"h", "t", "m", "l">>,
   <<"i", "d", "r", "i", "s">>,
   <<"j", "a", "v", "a">>,
   <<"j", "a", "v", "a", "s", "c", "r", "i", "p", "t">>,
   <<"j", "s", "o", "n">>,
   <<"j", "u", "l", "i", "a">>,
   <<"k", "o", "t", "l", "i", "n">>,
   <<"l", "a", "t", "e", "x">>,
   <<"l", "e", "s", "s">>,
   <<"l", "i", "s", "p">>,
   <<"l", "i", "v", "e", "s", "c", "r", "i", "p", "t">>,
   <<"l", "l", "v", "m", " ", "i", "r">>,
   <<"l", "u", "a">>,
   <<"m", "a", "k", "e", "f", "i", "l", "e">>,
   <<"m", "a", "r", "k", "d", "o", "w", "n">>,
   <<"m", "a", "r", "k", "u", "p">>,
   <<"m", "a", "t", "l", "a", "b">>,
   <<"m", "a", "t", "h", "e", "m", "a", "t", "i", "c", "a">>,
   <<"m", "e", "r", "m", "a", "i", "d">>,
   <<"n", "i", "x">>,
   <<"n", "o", "t", "i", "o", "n", " ", "f", "o", "r", "m", "u", "l", "a">>,
   <<"o", "b", "j", "e", "c", "t", "i", "v", "e", "-", "c">>,
   <<"o", "c", "a", "m", "l">>,
   <<"p", "a", "s", "c", "a", "l">>,
   <<"p", "e", "r", "l">>,
   <<"p", "h", "p">>,
   <<"p", "l", "a", "i", "n", " ", "t", "e", "x", "t">>,
   <<"p", "o", "w", "e", "r", "s", "h", "e", "l", "l">>,
   <<"p", "r", "o", "l", "o", "g">>,
   <<"p", "r", "o", "t", "o", "b", "u", "f">>,
   <<"p", "u", "r", "e", "s", "c", "r", "i", "p", "t">>,
   <<"p", "y", "t", "h", "o", "n">>,
   <<"r">>,
   <<"r", "a", "c", "k", "e", "t">>,
   <<"r", "e", "a", "s", "o", "n">>,
   <<"r", "u", "b", "y">>,
   <<"r", "u", "s", "t">>,
   <<"s", "a", "s", "s">>,
   <<"s", "c", "a", "l", "a">>,
   <<"s", "c", "h", "e", "m", "e">>,
   <<"s", "c", "s", "s">>,
   <<"s", "h", "e", "l", "l">>,
   <<"s", "m", "a", "l", "l", "t", "a", "l", "k">>,
   <<"s", "o", "l", "i", "d", "i", "t", "y">>,
   <<"s", "q", "l">>,
   <<"s", "w", "i", "f", "t">>,
   <<"t", "o", "m", "l">>,
   <<"t", "y", "p", "e", "s", "c", "r", "i", "p", "t">>,
   <<"v", "b", ".", "n", "e", "t">>,
   <<"v", "e", "r", "i", "l", "o", "g">>,
   <<"v", "h", "d", "l">>,
   <<"v", "i", "s", "u", "a", "l", " ", "b", "a", "s", "i", "c">>,
   <<"w", "e", "b", "a", "s", "s", "e", "m", "b", "l", "y">>,
   <<"x", "m", "l">>,
   <<"y", "a", "m", "l">>,
   <<"j", "a", "v", "a", "/", "c", "/", "c", "+", "+", "/", "c", "#">>}

\* The entries of the object literal, key and value.
languageMap ==
  {<<<<"j", "s">>, <<"j", "a", "v", "a", "s", "c", "r", "i", "p", "t">>>>,
   <<<<"t", "s">>, <<"t", "y", "p", "e", "s", "c", "r", "i", "p", "t">>>>,
   <<<<"p", "y">>, <<"p", "y", "t", "h", "o", "n">>>>,
   <<<<"r", "b">>, <<"r", "u", "b", "y">>>>,
   <<<<"s", "h">>, <<"b", "a", "s", "h">>>>,
   <<<<"z", "s", "h">>, <<"b", "a", "s", "h">>>>,
   <<<<"f", "i", "s", "h">>, <<"b", "a", "s", "h">>>>,
   <<<<"y", "m", "l">>, <<"y", "a", "m", "l">>>>,
   <<<<"d", "o", "c", "k", "e", "r", "f", "i", "l", "e">>, <<"d", "o", "c", "k", "e", "r">>>>,
   <<<<"m", "d">>, <<"m", "a", "r", "k", "d", "o", "w", "n">>>>,
   <<<<"i", "n", "i">>, <<"t", "o", "m", "l">>>>,
   <<<<"c", "o", "n", "f">>, <<"t", "o", "m", "l">>>>,
   <<<<"c", "f", "g">>, <<"t", "o", "m", "l">>>>,
   <<<<"p", "r", "o", "p", "e", "r", "t", "i", "e", "s">>, <<"t", "o", "m", "l">>>>,
   <<<<"e", "n", "v">>, <<"s", "h", "e", "l", "l">>>>,
   <<<<"d", "o", "t", "e", "n", "v">>, <<"s", "h", "e", "l", "l">>>>,
   <<<<"v", "i", "m">>, <<"p", "l", "a", "i", "n", " ", "t", "e", "x", "t">>>>,
   <<<<"v", "i", "m", "l">>, <<"p", "l", "a", "i", "n", " ", "t", "e", "x", "t">>>>,
   <<<<"v", "i", "m", "s", "c", "r", "i", "p", "t">>, <<"p", "l", "a", "i", "n", " ", "t", "e", "x", "t">>>>,
   <<<<"r", "e", "g">>, <<"p", "l", "a", "i", "n", " ", "t", "e", "x", "t">>>>,
   <<<<"n", "g", "i", "n", "x">>, <<"p", "l", "a", "i", "n", " ", "t", "e", "x", "t">>>>,
   <<<<"a", "p", "a", "c", "h", "e">>, <<"p", "l", "a", "i", "n", " ", "t", "e", "x", "t">>>>,
   <<<<"h", "t", "a", "c", "c", "e", "s", "s">>, <<"p", "l", "a", "i", "n", " ", "t", "e", "x", "t">>>>,
   <<<<"h", "t", "t", "p">>, <<"p", "l", "a", "i", "n", " ", "t", "e", "x", "t">>>>,
   <<<<"c", "o", "n", "s", "o", "l", "e">>, <<"s", "h", "e", "l", "l">>>>,
   <<<<"t", "e", "r", "m", "i", "n", "a", "l">>, <<"s", "h", "e", "l", "l">>>>,
   <<<<"t", "e", "x", "t">>, <<"p", "l", "a", "i", "n", " ", "t", "e", "x", "t">>>>,
   <<<<"t", "x", "t">>, <<"p", "l", "a", "i", "n", " ", "t", "e", "x", "t">>>>,
   <<<<"l", "o", "g">>, <<"p", "l", "a", "i", "n", " ", "t", "e", "x", "t">>>>,
   <<<<"a", "s", "m">>, <<"a", "s", "s", "e", "m", "b", "l", "y">>>>,
   <<<<"n", "a", "s", "m">>, <<"a", "s", "s", "e", "m", "b", "l", "y">>>>,
   <<<<"t", "e", "r", "r", "a", "f", "o", "r", "m">>, <<"h", "c", "l">>>>,
   <<<<"t", "f">>, <<"h", "c", "l">>>>,
   <<<<"j", "s", "o", "n", "c">>, <<"j", "s", "o", "n">>>>,
   <<<<"j", "s", "o", "n", "5">>, <<"j", "s", "o", "n">>>>,
   <<<<"j", "s", "x">>, <<"j", "a", "v", "a", "s", "c", "r", "i", "p", "t">>>>,
   <<<<"t", "s", "x">>, <<"t", "y", "p", "e", "s", "c", "r", "i", "p", "t">>>>,
   <<<<"c", "j", "s">>, <<"j", "a", "v", "a", "s", "c", "r", "i", "p", "t">>>>,
   <<<<"m", "j", "s">>, <<"j", "a", "v", "a", "s", "c", "r", "i", "p", "t">>>>,
   <<<<"m", "t", "s">>, <<"t", "y", "p", "e", "s", "c", "r", "i", "p", "t">>>>,
   <<<<"c", "t", "s">>, <<"t", "y", "p", "e", "s", "c", "r", "i", "p", "t">>>>,
   <<<<"v", "u", "e">>, <<"h", "t", "m", "l">>>>,
   <<<<"s", "v", "e", "l", "t", "e">>, <<"h", "t", "m", "l">>>>,
   <<<<"a", "s", "t", "r", "o">>, <<"h", "t", "m", "l">>>>,
   <<<<"o", "b", "j", "c">>, <<"o", "b", "j", "e", "c", "t", "i", "v", "e", "-", "c">>>>,
   <<<<"o", "b", "j", "e", "c", "t", "i", "v", "e", "c">>, <<"o", "b", "j", "e", "c", "t", "i", "v", "e", "-", "c">>>>,
   <<<<"c", "s">>, <<"c", "#">>>>,
   <<<<"c", "s", "h", "a", "r", "p">>, <<"c", "#">>>>,
   <<<<"c", "p", "p">>, <<"c", "+", "+">>>>,
   <<<<"c", "c">>, <<"c", "+", "+">>>>,
   <<<<"c", "x", "x">>, <<"c", "+", "+">>>>,
   <<<<"h">>, <<"c">>>>,
   <<<<"h", "p", "p">>, <<"c", "+", "+">>>>,
   <<<<"r", "s">>, <<"r", "u", "s", "t">>>>,
   <<<<"k", "t">>, <<"k", "o", "t", "l", "i", "n">>>>,
   <<<<"k", "t", "s">>, <<"k", "o", "t", "l", "i", "n">>>>,
   <<<<"e", "x">>, <<"e", "l", "i", "x", "i", "r">>>>,
   <<<<"e", "x", "s">>, <<"e", "l", "i", "x", "i", "r">>>>,
   <<<<"e", "r", "l">>, <<"e", "r", "l", "a", "n", "g">>>>,
   <<<<"h", "s">>, <<"h", "a", "s", "k", "e", "l", "l">>>>,
   <<<<"m", "l">>, <<"o", "c", "a", "m", "l">>>>,
   <<<<"f", "s">>, <<"f", "#">>>>,
   <<<<"f", "s", "h", "a", "r", "p">>, <<"f", "#">>>>,
   <<<<"p", "l">>, <<"p", "e", "r", "l">>>>,
   <<<<"p", "m">>, <<"p", "e", "r", "l">>>>,
   <<<<"p", "s", "m", "1">>, <<"p", "o", "w", "e", "r", "s", "h", "e", "l", "l">>>>,
   <<<<"p", "s", "1">>, <<"p", "o", "w", "e", "r", "s", "h", "e", "l", "l">>>>,
   <<<<"b", "a", "t">>, <<"p", "o", "w", "e", "r", "s", "h", "e", "l", "l">>>>,
   <<<<"c", "m", "d">>, <<"p", "o", "w", "e", "r", "s", "h", "e", "l", "l">>>>}

\* What an object literal inherits: the members of Object.prototype, each a
\* function or an object, by name.
ObjectPrototype ==
  {<<"c", "o", "n", "s", "t", "r", "u", "c", "t", "o", "r">>,
   <<"_", "_", "p", "r", "o", "t", "o", "_", "_">>,
   <<"t", "o", "S", "t", "r", "i", "n", "g">>,
   <<"t", "o", "L", "o", "c", "a", "l", "e", "S", "t", "r", "i", "n", "g">>,
   <<"v", "a", "l", "u", "e", "O", "f">>,
   <<"h", "a", "s", "O", "w", "n", "P", "r", "o", "p", "e", "r", "t", "y">>,
   <<"i", "s", "P", "r", "o", "t", "o", "t", "y", "p", "e", "O", "f">>,
   <<"p", "r", "o", "p", "e", "r", "t", "y", "I", "s", "E", "n", "u", "m", "e", "r", "a", "b", "l", "e">>,
   <<"_", "_", "d", "e", "f", "i", "n", "e", "G", "e", "t", "t", "e", "r", "_", "_">>,
   <<"_", "_", "d", "e", "f", "i", "n", "e", "S", "e", "t", "t", "e", "r", "_", "_">>,
   <<"_", "_", "l", "o", "o", "k", "u", "p", "G", "e", "t", "t", "e", "r", "_", "_">>,
   <<"_", "_", "l", "o", "o", "k", "u", "p", "S", "e", "t", "t", "e", "r", "_", "_">>}

Undefined == <<"undefined">>

Inherited(key) == <<"Object.prototype">> \o key

\* languageMap[key]: the own entry, else the inherited member, else undefined.
Lookup(key) ==
  IF \E entry \in languageMap : entry[1] = key
  THEN (CHOOSE entry \in languageMap : entry[1] = key)[2]
  ELSE IF key \in ObjectPrototype THEN Inherited(key) ELSE Undefined

\* Mutant: a supported tag is not looked up in the set.
mapLanguageAliasesOnly(lang) ==
  LET normalized == Trim(ToLowerCase(lang))
  IN  IF Lookup(normalized) \notin {Undefined, <<>>} THEN Lookup(normalized)
      ELSE <<"p", "l", "a", "i", "n", " ", "t", "e", "x", "t">>

mapLanguage(lang) ==
  LET normalized == Trim(ToLowerCase(lang))
  IN  IF Lookup(normalized) \notin {Undefined, <<>>} THEN Lookup(normalized)
      ELSE IF normalized \in SUPPORTED_LANGUAGES THEN normalized
      ELSE <<"p", "l", "a", "i", "n", " ", "t", "e", "x", "t">>

MaxPad == 1

Spaces(n) == [k \in 1..n |-> " "]

LanguageNames ==
  {entry[1] : entry \in languageMap} \cup SUPPORTED_LANGUAGES \cup ObjectPrototype
    \cup {<<"u", "n", "k", "n", "o", "w", "n", "l", "a", "n", "g">>, <<>>, <<"x">>, <<"p", "y", "t">>, <<"p", "l", "a", "i", "n">>}

Languages ==
  {Spaces(left) \o name \o Spaces(right) :
     left \in 0..MaxPad, right \in 0..MaxPad,
     name \in LanguageNames \cup {ToUpperCase(n) : n \in LanguageNames}}

(***************************************************************************)
(* The block tokenizer.  A block is its type, the index of the source line  *)
(* it was made from, its rich text and, for a code block, its content and   *)
(* language, for an image its URL.                                          *)
(***************************************************************************)
Fence == <<Backtick, Backtick, Backtick>>

\* content.split('\n')
RECURSIVE Split(_)
Split(content) ==
  LET nl == FirstIn(content, 1, {"\n"})
  IN  IF nl = 0 THEN <<content>>
      ELSE <<SubSeq(content, 1, nl - 1)>> \o Split(Drop(content, nl))

\* lines.join('\n')
RECURSIVE Join(_)
Join(lines) ==
  IF lines = <<>> THEN <<>>
  ELSE IF Len(lines) = 1 THEN lines[1]
  ELSE lines[1] \o <<"\n">> \o Join(Tail(lines))

\* str.substring(0, 2000)
Truncated(str) == SubSeq(str, 1, Min(2000, Len(str)))

Block(type, line, rich_text) ==
  [type |-> type, line |-> line, rich_text |-> rich_text,
   content |-> <<>>, language |-> <<>>, url |-> <<>>]

NoHeading == [type |-> "none", skip |-> 0]

\* Mutant: only the one-, two- and three-hash prefixes are headings.
HeadingOfThreeLevels(line) ==
  IF StartsWith(line, <<"#", "#", "#", " ">>) THEN [type |-> "heading_3", skip |-> 4]
  ELSE IF StartsWith(line, <<"#", "#", " ">>) THEN [type |-> "heading_2", skip |-> 3]
  ELSE IF StartsWith(line, <<"#", " ">>) THEN [type |-> "heading_1", skip |-> 2]
  ELSE NoHeading

\* The heading prefixes in the order they are tried.
HeadingOf(line) ==
  IF StartsWith(line, <<"#", "#", "#", "#", "#", "#", " ">>)
  THEN [type |-> "heading_3", skip |-> 7]
  ELSE IF StartsWith(line, <<"#", "#", "#", "#", "#", " ">>)
  THEN [type |-> "heading_3", skip |-> 6]
  ELSE IF StartsWith(line, <<"#", "#", "#", "#", " ">>)
  THEN [type |-> "heading_3", skip |-> 5]
  ELSE IF StartsWith(line, <<"#", "#", "#", " ">>) THEN [type |-> "heading_3", skip |-> 4]
  ELSE IF StartsWith(line, <<"#", "#", " ">>) THEN [type |-> "heading_2", skip |-> 3]
  ELSE IF StartsWith(line, <<"#", " ">>) THEN [type |-> "heading_1", skip |-> 2]
  ELSE NoHeading

\* /^\d+\.\s/: the length of the match, 0 if there is none.
OrderedMatch(line) ==
  LET digits == Cardinality({k \in 1..Len(line) : \A j \in 1..k : IsDigit(line[j])})
  IN  IF digits > 0 /\ At(line, digits + 1) = "." /\ IsSpace(At(line, digits + 2))
      THEN digits + 2 ELSE 0

\* The link match m if it is all of the trimmed line after the "!".
WholeImage(trimmed, m) ==
  IF At(trimmed, 1) = "!" /\ m.kind = "link" /\ m.end = Len(trimmed) THEN m ELSE NoMatch

ImageOf(trimmed) == WholeImage(trimmed, LinkAt(trimmed, 2))

\* line.trim().match(/^!\[([^\]]*)\]\(([^)\s]+)(?:\s+"[^"]*")?\)$/)
ImageMatch(line) == ImageOf(Trim(line))

\* The branch a line that opens no fence takes, in the order of the code;
\* "none" for a line that makes no block.
BranchOf(line, heading, orderedMatch, imageMatch) ==
  IF heading.type # "none" THEN heading.type
  ELSE IF StartsWith(line, <<">", " ">>) THEN "quote"
  ELSE IF StartsWith(line, <<"-", " ">>) \/ StartsWith(line, <<"*", " ">>)
  THEN "bulleted_list_item"
  ELSE IF orderedMatch > 0 THEN "numbered_list_item"
  ELSE IF line \in {<<"-", "-", "-">>, <<"*", "*", "*">>, <<"_", "_", "_">>} THEN "divider"
  ELSE IF imageMatch.kind # "none" THEN "image"
  ELSE IF Trim(line) # <<>> THEN "paragraph"
  ELSE "none"

\* The text the branch hands to parseRichText.
TextOf(line, type, heading, orderedMatch) ==
  IF type = "paragraph" THEN Truncated(line)
  ELSE IF type = "numbered_list_item" THEN Drop(line, orderedMatch)
  ELSE IF type \in {"quote", "bulleted_list_item"} THEN Drop(line, 2)
  ELSE Drop(line, heading.skip)

\* The blocks the branch pushes: one or none.
Pushed(line, at, type, heading, orderedMatch, imageMatch) ==
  IF type = "none" THEN <<>>
  ELSE IF type = "divider" THEN <<Block("divider", at, <<>>)>>
  ELSE IF type = "image"
  THEN <<[Block("image", at, <<>>) EXCEPT !.url = imageMatch.target,
                                          !.content = imageMatch.text]>>
  ELSE <<Block(type, at, parseRichText(TextOf(line, type, heading, orderedMatch)))>>

BlockWith(line, at, heading, orderedMatch, imageMatch) ==
  Pushed(line, at, BranchOf(line, heading, orderedMatch, imageMatch),
         heading, orderedMatch, imageMatch)

\* The blocks pushed for a line that does not open a fence.
BlockOf(line, at) ==
  BlockWith(line, at, HeadingOf(line), OrderedMatch(line), ImageMatch(line))

\* Mutant: the lines after an opening fence are not consumed.
FenceEndAtOpening(lines, at) == at

\* Where the inner loop stops after the fence opened at line at: the index of
\* the next line that starts with a fence, or one past the last line.
FenceEnd(lines, at) ==
  LET closes == {j \in (at + 1)..Len(lines) : StartsWith(lines[j], Fence)}
  IN  IF closes = {} THEN Len(lines) + 1
      ELSE CHOOSE j \in closes : \A other \in closes : j <= other

CodeBlock(lines, at) ==
  [Block("code", at, <<>>) EXCEPT
     !.content = Truncated(Join(SubSeq(lines, at + 1, FenceEnd(lines, at) - 1))),
     !.language = mapLanguage(IF Trim(Drop(lines[at], 3)) # <<>>
                              THEN Trim(Drop(lines[at], 3)) ELSE <<"p", "l", "a", "at", "n", " ", "t", "e", "x", "t">>)]

\* The while loop, with lines counted from 1.
RECURSIVE BlocksFrom(_, _)
BlocksFrom(lines, at) ==
  IF at > Len(lines) THEN <<>>
  ELSE IF StartsWith(lines[at], Fence)
       THEN <<CodeBlock(lines, at)>> \o BlocksFrom(lines, FenceEnd(lines, at) + 1)
       ELSE BlockOf(lines[at], at) \o BlocksFrom(lines, at + 1)

tokenize(content) == BlocksFrom(Split(content), 1)

MaxLines == 4

MaxHashes == 7

Hashes(n) == [k \in 1..n |-> "#"]

\* Lines for documents of several lines.
StructureLines ==
  {<<>>, <<" ">>, <<"a">>, Fence, Fence \o <<"p", "y">>, <<"#", " ", "h">>,
   <<"-", " ", "b">>, <<"-", "-", "-">>}

\* Lines of every kind, for documents of one line.
KindLines ==
  {Hashes(n) \o rest : n \in 1..MaxHashes, rest \in {<<" ", "x">>, <<"x">>, <<" ">>, <<>>}}
    \cup {<<"!", "[", "a", "]", "(", "u", ")">>, <<"!", "[", "a", "]", "(", "u", " ", "\"", "t", "\"", ")">>, <<"!", "[", "a", "]", "(", "u", ")", " ", "x">>, <<" ", "#", " ", "x">>,
          <<">", " ", "q">>, <<">", "q">>, <<"*", " ", "b">>, <<"1", ".", " ", "o">>,
          <<"1", "2", ".", "\t", "o">>, <<"1", ".", "o">>, <<"*", "*", "*">>,
          <<"_", "_", "_">>, <<"-", "-", "-", "-">>, <<"\t">>, <<" ", "\r">>,
          Fence \o <<" ", "P", "Y", " ">>, <<" ">> \o Fence}

RECURSIVE LineSeqs(_)
LineSeqs(n) ==
  IF n = 0 THEN {<<>>}
  ELSE LineSeqs(n - 1)
         \cup {lines \o <<line>> : lines \in LineSeqs(n - 1), line \in StructureLines}

MaxOver == 1

Long(n) == [k \in 1..n |-> "a"]

\* Lines of each kind at and over the length the paragraph branch cuts at,
\* and a fenced region holding one such line.
LongLines ==
  {prefix \o Long(2000 + over) :
     prefix \in {<<>>, <<"#", " ">>, <<"#", "#", "#", "#", " ">>, <<">", " ">>,
                 <<"-", " ">>, <<"1", ".", " ">>, Fence \o <<"\n">>},
     over \in 0..MaxOver}

Documents ==
  {Join(lines) : lines \in LineSeqs(MaxLines)} \cup KindLines \cup LongLines

(***************************************************************************)
(* cleanBrokenImageLinks on a text of a few images, fewer than the limit of *)
(* the pool, so that every check is awaited.  A markdown text is a sequence *)
(* of tokens: 0 is text without an image, -1 a line break, u > 0 the image  *)
(* ![..](u).  The network answers the request for URL u with net[u], and a  *)
(* redirect of u leads to u + 1.                                            *)
(***************************************************************************)
\* extractImageUrls: the URL of every image, in order.
extractImageUrls(markdown) ==
  LET IsImage(token) == token > 0 IN SelectSeq(markdown, IsImage)

\* The first match of !\[.*?\]\(url\) from position from on, as the pair of
\* its first and last token: it starts at the leftmost image that has an
\* image of that URL at or after it on the same line, and ends at the first
\* such image.  <<0, 0>> if there is none.
PatternMatch(content, from, url) ==
  LET Ends(a) == {b \in a..Len(content) :
                    /\ content[b] = url
                    /\ \A k \in a..b : content[k] # -1}
      starts  == {a \in from..Len(content) : content[a] > 0 /\ Ends(a) # {}}
      first   == CHOOSE a \in starts : \A other \in starts : a <= other
  IN  IF starts = {} THEN <<0, 0>>
      ELSE <<first, CHOOSE b \in Ends(first) : \A other \in Ends(first) : b <= other>>

RECURSIVE ReplacePattern(_, _, _)
\* One replacement, then the rest of the text.
ReplaceFound(content, from, url, found) ==
  IF found[1] = 0 THEN SubSeq(content, from, Len(content))
  ELSE SubSeq(content, from, found[1] - 1) \o ReplacePattern(content, found[2] + 1, url)

\* cleanedContent.replace(imagePattern, '') with the g flag.
ReplacePattern(content, from, url) ==
  ReplaceFound(content, from, url, PatternMatch(content, from, url))

RECURSIVE RemoveInvalid(_, _, _)
\* The loop over validityResults from result k on.
RemoveInvalid(checked, k, cleaned) ==
  IF k > Len(checked) THEN cleaned
  ELSE IF checked[k].isValid THEN RemoveInvalid(checked, k + 1, cleaned)
  ELSE RemoveInvalid(checked, k + 1,
                     [content |-> ReplacePattern(cleaned.content, 1, checked[k].url),
                      removedCount |-> cleaned.removedCount + 1,
                      totalChecked |-> cleaned.totalChecked])

\* Mutant: the pattern is built from the URL of the source, not of the result.
CheckAllKeepsUrl(imageUrls, net) ==
  [k \in 1..Len(imageUrls) |->
     [checkImageUrl(imageUrls[k], 0, net) EXCEPT !.url = imageUrls[k]]]

\* runWithConcurrencyLimit for fewer items than the limit.
CheckAll(imageUrls, net) ==
  [k \in 1..Len(imageUrls) |-> checkImageUrl(imageUrls[k], 0, net)]

cleanBrokenImageLinks(markdown, check, net) ==
  IF ~check \/ extractImageUrls(markdown) = <<>>
  THEN [content |-> markdown, removedCount |-> 0, totalChecked |-> 0]
  ELSE RemoveInvalid(CheckAll(extractImageUrls(markdown), net), 1,
                     [content |-> markdown, removedCount |-> 0,
                      totalChecked |-> Len(extractImageUrls(markdown))])

MaxTokens == 3

MaxNet == 3

RECURSIVE TokenSeqs(_)
TokenSeqs(n) ==
  IF n = 0 THEN {<<>>}
  ELSE TokenSeqs(n - 1)
         \cup {md \o <<token>> : md \in TokenSeqs(n - 1), token \in {-1, 0, 1, 2}}

\* Answers for the URLs 1..n: found, not found or a redirect to the next
\* URL; the last URL is not redirected.
RECURSIVE Nets(_)
Nets(n) ==
  IF n = 1 THEN {<<Response(200, FALSE)>>, <<Response(404, FALSE)>>}
  ELSE {<<first>> \o rest :
          first \in {Response(200, FALSE), Response(404, FALSE), Response(301, TRUE)},
          rest \in Nets(n - 1)}

Cleanings ==
  [markdown : TokenSeqs(MaxTokens), check : BOOLEAN, net : Nets(MaxNet)]

(***************************************************************************)
(* The pure functions, each applied once to an argument drawn from a        *)
(* bounded set.                                                             *)
(***************************************************************************)
CallOf(fn, arguments) == {[fn |-> fn, arg |-> a] : a \in arguments}

\* The arguments each function is applied to.
Arguments(fn) ==
  CASE fn = "checkImageUrl" -> Scripts
    [] fn = "sanitizeUrl" -> Urls
    [] fn = "parseRichText" -> Texts
    [] fn = "mapLanguage" -> Languages
    [] fn = "tokenize" -> Documents
    [] fn = "cleanBrokenImageLinks" -> Cleanings

Functions ==
  {"checkImageUrl", "sanitizeUrl", "parseRichText", "mapLanguage", "tokenize",
   "cleanBrokenImageLinks"}

PureInit ==
  /\ SyncIdle
  /\ PoolIdle
  /\ \E fn \in Functions : call \in CallOf(fn, Arguments(fn))
  /\ ret = <<>>

Returned1(fn) == call.fn = fn /\ ret # <<>>

CheckImageUrl ==
  /\ call.fn = "checkImageUrl"
  /\ ret = <<>>
  /\ ret' = <<checkImageUrl(1, 0, call.arg)>>
  /\ UNCHANGED <<sync, pool, call>>

SanitizeUrl ==
  /\ call.fn = "sanitizeUrl"
  /\ ret = <<>>
  /\ ret' = <<sanitizeUrl(call.arg)>>
  /\ UNCHANGED <<sync, pool, call>>

ParseRichText ==
  /\ call.fn = "parseRichText"
  /\ ret = <<>>
  /\ ret' = <<parseRichText(call.arg)>>
  /\ UNCHANGED <<sync, pool, call>>

MapLanguage ==
  /\ call.fn = "mapLanguage"
  /\ ret = <<>>
  /\ ret' = <<mapLanguage(call.arg)>>
  /\ UNCHANGED <<sync, pool, call>>

Tokenize ==
  /\ call.fn = "tokenize"
  /\ ret = <<>>
  /\ ret' = <<tokenize(call.arg)>>
  /\ UNCHANGED <<sync, pool, call>>

CleanLinks ==
  /\ call.fn = "cleanBrokenImageLinks"
  /\ ret = <<>>
  /\ ret' = <<cleanBrokenImageLinks(call.arg.markdown, call.arg.check, call.arg.net)>>
  /\ UNCHANGED <<sync, pool, call>>

PureNext ==
  \/ CheckImageUrl \/ SanitizeUrl \/ ParseRichText \/ MapLanguage \/ Tokenize
  \/ CleanLinks

PureSpec == PureInit /\ [][PureNext]_vars

(***************************************************************************)
(* C13.  checkImageUrl always resolves with a structured result; at most   *)
(* 4 requests are issued for one URL; a redirect met after 3 followed       *)
(* redirects, or one without location, gives isValid = false; only a final  *)
(* status 200 gives isValid = true; a timeout or a request error gives      *)
(* isValid = false with an error text.                                      *)
(***************************************************************************)
\* The number of leading responses of a script that are redirects with a location.
Leading(script) ==
  Cardinality({k \in 1..Len(script) :
                 \A j \in 1..k : /\ script[j].kind = "response"
                                 /\ script[j].status \in {301, 302, 307, 308}
                                 /\ script[j].location})

CheckResolves ==
  Returned1("checkImageUrl") =>
     LET script == call.arg
         res    == ret[1]
         last   == script[(IF Leading(script) < 3 THEN Leading(script) ELSE 3) + 1]
     IN  /\ res.isValid \in BOOLEAN
         /\ res.requests <= 4
         /\ res.isValid <=> (last.kind = "response" /\ last.status = 200)
         /\ res.isValid => res.statusCode = <<200>> /\ res.error = <<>>
         /\ ~res.isValid => res.error # <<>>
         /\ last.kind = "response" => res.statusCode = <<last.status>>
         /\ last.kind \in {"timeout", "error", "invalid"} => res.statusCode = <<>>
         /\ last.kind = "timeout" => res.error = <<"Timeout (30s)">>
         /\ Leading(script) > 3 => res.requests = 4 /\ ~res.isValid

CheckResolvesWitness ==
  /\ Returned1("checkImageUrl")
  /\ Leading(call.arg) = 5
  /\ ret[1].requests = 4
  /\ ret[1].statusCode = <<308>>

(***************************************************************************)
(* C16.  For every u with sanitizeUrl(u) non-null, sanitizeUrl applied to  *)
(* the result returns the result, also for inputs with HTML entities        *)
(* followed by further entity text.                                         *)
(***************************************************************************)
SanitizerIdempotent ==
  (Returned1("sanitizeUrl") /\ ret[1] # Null) => sanitizeUrl(ret[1]) = ret[1]

(***************************************************************************)
(* C17.  Nested style flags union: the text **a *b* c** yields exactly     *)
(* three runs in order, "a " bold only, "b" bold and italic, " c" bold     *)
(* only; and when a text is one bold, italic or strikethrough match, each  *)
(* run made from its inner text carries the outer flag besides the flags    *)
(* the inner text gives it.                                                 *)
(***************************************************************************)
WholeMatch(text) ==
  LET m == MatchAt(text, 1, TRUE)
  IN  IF m.kind \in {"bold", "italic", "strikethrough"} /\ m.end = Len(text)
      THEN m ELSE NoMatch

NestedFlagsUnion ==
  Returned1("parseRichText") =>
     LET m   == WholeMatch(call.arg)
         own == parseInlineFormat(m.text, NoFlags)
     IN  /\ call.arg = NestedExample =>
              ret[1] = <<Run(<<"a", " ">>, Null, With(NoFlags, "bold")),
                         Run(<<"b">>, Null, With(With(NoFlags, "bold"), "italic")),
                         Run(<<" ", "c">>, Null, With(NoFlags, "bold"))>>
         /\ m.kind # "none" =>
              /\ Len(ret[1]) = Len(own)
              /\ \A k \in 1..Len(own) :
                   /\ ret[1][k][m.kind]
                   /\ ret[1][k].content = own[k].content
                   /\ \A flag \in DOMAIN NoFlags : own[k][flag] => ret[1][k][flag]
                   /\ \A flag \in DOMAIN NoFlags \ {m.kind} : ret[1][k][flag] => own[k][flag]

NestedFlagsUnionWitness ==
  /\ Returned1("parseRichText")
  /\ call.arg = NestedExample
  /\ Len(ret[1]) = 3
  /\ ret[1][2].bold /\ ret[1][2].italic

(***************************************************************************)
(* C18.  Link fallback: the text [x](not a url) yields a run with content  *)
(* "x" and no link; and for a bracketed link whose target sanitizeUrl      *)
(* rejects, the runs of the label are emitted without a link and the label  *)
(* is kept.                                                                 *)
(***************************************************************************)
LinkFallback ==
  Returned1("parseRichText") =>
     /\ call.arg = RejectedExample =>
          /\ \E k \in 1..Len(ret[1]) : ret[1][k].content = <<"x">> /\ ret[1][k].link = Null
          /\ \A k \in 1..Len(ret[1]) : ret[1][k].link = Null
     /\ \A label \in LinkLabels \ {<<>>}, target \in LinkTargets :
          (/\ call.arg = <<"[">> \o label \o <<"]", "(">> \o target \o <<")">>
           /\ sanitizeUrl(target) = Null)
            => ret[1] = parseInlineFormat(label, NoFlags)

(***************************************************************************)
(* C19.  mapLanguage never returns an unsupported tag: for every string,    *)
(* the result is a member of SUPPORTED_LANGUAGES; an alias gives its        *)
(* target ("PY" gives "python"), a supported tag is returned unchanged,     *)
(* and anything else ("unknownlang") gives "plain text".                    *)
(***************************************************************************)
MapLanguageSupported ==
  Returned1("mapLanguage") =>
     LET normalized == Trim(ToLowerCase(call.arg))
     IN  /\ ret[1] \in SUPPORTED_LANGUAGES
         /\ call.arg = <<"P", "Y">> => ret[1] = <<"p", "y", "t", "h", "o", "n">>
         /\ call.arg = <<"u", "n", "k", "n", "o", "w", "n", "l", "a", "n", "g">> => ret[1] = <<"p", "l", "a", "i", "n", " ", "t", "e", "x", "t">>
         /\ \A entry \in languageMap : normalized = entry[1] => ret[1] = entry[2]
         /\ (normalized \in SUPPORTED_LANGUAGES /\ \A entry \in languageMap : normalized # entry[1])
              => ret[1] = normalized

(***************************************************************************)
(* C14.  The block tokenizer returns for every input, and the number of     *)
(* blocks equals the number of non-blank source lines that are neither      *)
(* inside nor closing a fenced code block (a fenced region, from its        *)
(* opening fence to its closing fence or the end of input, is one block),   *)
(* the blocks being in source line order.                                   *)
(***************************************************************************)
\* A fence is open before line at: an odd number of fence lines precede it.
FenceOpen(lines, at) ==
  Cardinality({j \in 1..(at - 1) : StartsWith(lines[j], Fence)}) % 2 = 1

Counted(lines) ==
  {at \in 1..Len(lines) : Trim(lines[at]) # <<>> /\ ~FenceOpen(lines, at)}

BlockTypes ==
  {"code", "heading_1", "heading_2", "heading_3", "quote", "bulleted_list_item",
   "numbered_list_item", "divider", "image", "paragraph"}

BlockPerLine ==
  Returned1("tokenize") =>
     LET lines  == Split(call.arg)
         blocks == ret[1]
     IN  /\ Len(blocks) = Cardinality(Counted(lines))
         /\ \A k \in 1..Len(blocks) :
              /\ blocks[k].type \in BlockTypes
              /\ blocks[k].line \in Counted(lines)
              /\ blocks[k].type = "code" <=> StartsWith(lines[blocks[k].line], Fence)
         /\ \A k \in 1..(Len(blocks) - 1) : blocks[k].line < blocks[k + 1].line

BlockPerLineWitness ==
  /\ Returned1("tokenize")
  /\ call.arg = Join(<<<<"a">>, Fence \o <<"p", "y">>, <<"a">>, Fence>>)
  /\ Len(ret[1]) = 2
  /\ ret[1][2].type = "code"
  /\ ret[1][2].content = <<"a">>
  /\ ret[1][2].language = <<"p", "y", "t", "h", "o", "n">>

(***************************************************************************)
(* C15.  Heading precedence: the line ###### x yields the same block kind   *)
(* as ### x, heading level three; a line of four, five or six hashes        *)
(* followed by a space is a level-three heading and is never taken by the   *)
(* one-hash or two-hash prefix.                                             *)
(***************************************************************************)
HeadingPrecedence ==
  Returned1("tokenize") =>
     \A n \in 1..MaxHashes :
        StartsWith(call.arg, Hashes(n) \o <<" ">>) /\ "\n" \notin {call.arg[k] : k \in 1..Len(call.arg)} =>
           /\ Len(ret[1]) = 1
           /\ ret[1][1].type = (CASE n = 1 -> "heading_1" [] n = 2 -> "heading_2"
                                  [] n \in 3..6 -> "heading_3" [] OTHER -> "paragraph")
           /\ n \in 3..6 =>
                /\ ret[1][1].type = tokenize(<<"#", "#", "#", " ", "x">>)[1].type
                /\ ret[1][1].rich_text = parseRichText(Drop(call.arg, n + 1))

HeadingPrecedenceWitness ==
  /\ Returned1("tokenize")
  /\ call.arg = <<"#", "#", "#", "#", "#", "#", " ", "x">>
  /\ ret[1][1].type = "heading_3"
  /\ ret[1][1].rich_text = <<Run(<<"x">>, Null, NoFlags)>>

(***************************************************************************)
(* C20.  Markdown export does not require the Notion environment           *)
(* variables: with the Typecho database variables set and NOTION_KEY and    *)
(* NOTION_DATABASE_ID unset, the markdown command passes the loading and    *)
(* validation of the configuration and goes on to the export of posts, so   *)
(* it never ends with exit status 1 at start-up.                            *)
(***************************************************************************)
MarkdownWithoutNotion ==
  (/\ args.command = "markdown"
   /\ env.typecho /\ env.adapter
   /\ ~env.notion)
    => pc # "exit1"

(***************************************************************************)
(* C22.  Every text run in every block the converter returns has non-empty  *)
(* content, for every line, also for a line that is only a block marker     *)
(* such as "# ", "> " or "- ".                                              *)
(***************************************************************************)
RunsOf(block) == {block.rich_text[k] : k \in 1..Len(block.rich_text)}

NonEmptyRuns ==
  Returned1("tokenize") =>
     \A k \in 1..Len(ret[1]) : \A run \in RunsOf(ret[1][k]) : run.content # <<>>

(***************************************************************************)
(* C23.  Run-length limit: every text run of every block has content of at  *)
(* most 2000 characters, for paragraphs, headings, quotes, list items and   *)
(* the content of a code block, whatever the length of the source line.     *)
(***************************************************************************)
RunLengthLimit ==
  Returned1("tokenize") =>
     \A k \in 1..Len(ret[1]) :
        /\ Len(ret[1][k].content) <= 2000
        /\ \A run \in RunsOf(ret[1][k]) : Len(run.content) <= 2000

(***************************************************************************)
(* C25.  Inline code has priority: the characters between a pair of         *)
(* backticks forming a code span are emitted as one run with only the code  *)
(* flag, and markers inside the span are not taken as style or link         *)
(* syntax, also when an opening marker stands before the span and its       *)
(* closing marker inside it.                                                *)
(***************************************************************************)
\* The code spans of a text, from position from on: a backtick and the next
\* backtick after at least one character.
RECURSIVE CodeSpans(_, _)
SpansFrom(text, open, close) ==
  IF close = 0 THEN {}
  ELSE IF close = open + 1 THEN CodeSpans(text, close)
  ELSE {SubSeq(text, open + 1, close - 1)} \cup CodeSpans(text, close + 1)

CodeSpans(text, from) ==
  LET open == FirstIn(text, from, {Backtick})
  IN  IF open = 0 THEN {}
      ELSE SpansFrom(text, open, FirstIn(text, open + 1, {Backtick}))

CodePriority ==
  Returned1("parseRichText") =>
     \A span \in CodeSpans(call.arg, 1) :
        \E k \in 1..Len(ret[1]) : ret[1][k] = Run(span, Null, With(NoFlags, "code"))

(***************************************************************************)
(* C29.  With link checking enabled, every image whose check ends invalid   *)
(* is absent from the content cleanBrokenImageLinks returns, and            *)
(* removedCount is the number of source images removed, also when the       *)
(* check followed redirects before it failed; with link checking disabled   *)
(* or no image in the text, the content is returned unchanged with          *)
(* removedCount = 0 and totalChecked = 0.                                   *)
(***************************************************************************)
ImageCount(content) == Len(extractImageUrls(content))

BrokenRemoved ==
  Returned1("cleanBrokenImageLinks") =>
     LET markdown == call.arg.markdown
         urls     == extractImageUrls(markdown)
     IN  IF ~call.arg.check \/ urls = <<>>
         THEN ret[1] = [content |-> markdown, removedCount |-> 0, totalChecked |-> 0]
         ELSE /\ \A k \in 1..Len(urls) :
                   ~checkImageUrl(urls[k], 0, call.arg.net).isValid
                      => urls[k] \notin Members(ret[1].content)
              /\ ret[1].removedCount = ImageCount(markdown) - ImageCount(ret[1].content)
              /\ ret[1].totalChecked = Len(urls)

(***************************************************************************)
(* C28.  runWithConcurrencyLimit resolves only after fn has completed for   *)
(* every item, and then results has an entry at every index, whatever the   *)
(* number of items and the order in which the checks complete.              *)
(***************************************************************************)
ResolvesComplete ==
  ppc = "clean" =>
     /\ settled = 1..Len(items)
     /\ DOMAIN validityResults = 1..Len(items)

(***************************************************************************)
(* C26.  In a markdown export, when the first exportPost call of a post     *)
(* returned created or updated, the cleaned post is exported again: once    *)
(* the post has been processed, the body of its file is the text            *)
(* cleanBrokenImageLinks returned, not the text as fetched.                 *)
(***************************************************************************)
CleanedBodyOnDisk ==
  [][(pc = "export" /\ pc' = "loop")
        => files'[generateFilename(cleanedPost)].text = cleanedPost.text]_vars

(***************************************************************************)
(* C21.  exportPost returns created when the file of the post is absent,    *)
(* skipped, leaving the file as it is, when the file exists and the         *)
(* modified instant of its frontmatter is not earlier than the post's, and  *)
(* updated otherwise; a second export of the same post right after the      *)
(* first is skipped and leaves the file as the first left it.               *)
(*                                                                          *)
(* ExportDecision states it for a frontmatter whose modified line has the   *)
(* form exportPost writes (toISOString) or is missing; ExportByInstant      *)
(* states it for every modified line that denotes an instant.               *)
(***************************************************************************)
IsoForm(marker) == marker = ToISOString(InstantOf(marker) * 1000)

Written(post) == [modified |-> ToISOString(post.modified * 1000), text |-> post.text]

\* What the claim expects of exportPost(post) in the directory fs, the
\* modified lines in Forms being read as instants.
Expected(fs, post, done, Forms(_)) ==
  LET name == generateFilename(post)
  IN  /\ name \notin DOMAIN fs
         => done.action = "created" /\ done.files[name] = Written(post)
      /\ name \in DOMAIN fs /\ fs[name].modified # <<>> /\ Forms(fs[name].modified)
         => IF InstantOf(fs[name].modified) >= post.modified
            THEN done.action = "skipped" /\ done.files = fs
            ELSE done.action = "updated" /\ done.files[name] = Written(post)
      /\ name \in DOMAIN fs /\ fs[name].modified = <<>>
         => done.action = "updated" /\ done.files[name] = Written(post)
      /\ done.action # "skipped"
         => exportPost(done.files, post) = [action |-> "skipped", files |-> done.files]

Exported == pc = "export.first" /\ pc' \in {"loop", "clean"}

AnyForm(marker) == TRUE

PagesOfSize(n) == IF n = 0 THEN 1 ELSE (n + page_size - 1) \div page_size

\* The cursor that names result page k of seq.
CursorOfPage(seq, k) == IF k = 1 THEN <<>> ELSE <<seq[(k - 1) * page_size + 1].id>>

Queries == Returned(0, {"databases.query"})

Querying == args.command # "markdown" /\ pc \in {"query", "loop"} /\ currentIndex = 0

\* The database queries so far are those of the first result pages, each
\* once and in order; the loop goes on while a page is left and no longer.
QueryWalk ==
  Querying =>
     /\ Len(Queries) <= PagesOfSize(Len(remote))
     /\ \A k \in 1..Len(Queries) : Queries[k].target = CursorOfPage(remote, k)
     /\ pc = "query" <=> Len(Queries) < PagesOfSize(Len(remote))
     /\ pc = "loop" =>
          \A k \in 1..Len(remote) : remote[k].key # <<>> => remote[k].key \in DOMAIN existing

Listings == Returned(currentIndex, {"blocks.children.list"})

NoRepeat(seq) == \A a, b \in 1..Len(seq) : seq[a] = seq[b] => a = b

\* The listings of the page being updated: the first without a cursor, each
\* later one with the cursor that names the block after the last one
\* listed, no block listed twice, and one more listing exactly while the
\* last response had has_more.
ListWalk ==
  (Updating /\ pc \in {"list", "delete", "append", "sleep"}) =>
     /\ \A k \in 1..Len(Listings) :
           /\ Listings[k].target =
                IF k = 1 THEN <<>>
                ELSE <<Listings[k - 1].blocks[Len(Listings[k - 1].blocks)] + 1>>
           /\ k < Len(Listings) => Listings[k].more
     /\ NoRepeat(Flatten(Listings))
     /\ pc = "list" => (Listings = <<>> \/ Listings[Len(Listings)].more)
     /\ pc \in {"append", "sleep"} =>
          /\ Listings # <<>>
          /\ ~Listings[Len(Listings)].more
          /\ \A k \in 1..Len(Children(existing[cleanedPost.slug].pageId)) :
             Children(existing[cleanedPost.slug].pageId)[k].id < 1000

CursorPagination ==
  /\ [](QueryWalk /\ ListWalk)
  /\ (pc = "query") ~> (pc # "query")
  /\ (pc \in {"list", "delete"}) ~> (pc \notin {"list", "delete"})

CursorPaginationWitness ==
  /\ pc = "loop" /\ currentIndex = 0
  /\ Len(Queries) = 3
  /\ Slug(1) \in DOMAIN existing

(***************************************************************************)
(* C27.  updatePage writes the properties of the page, the Modified marker  *)
(* set to the modified instant of the post among them, before any child     *)
(* block is listed, deleted or appended; so when the replacement of the     *)
(* content fails after it, a following run over the same post finds the     *)
(* marker, decides to skip and writes nothing: the content stays as the     *)
(* failed run left it.                                                      *)
(***************************************************************************)
ContentOps == {"blocks.children.list", "blocks.delete", "blocks.children.append"}

\* The map queryExistingPosts of a following run builds.
QueriedAgain == PutAll(<<>>, remote)

\* The decision of a following run on post k: the skip branch of syncPosts.
SkippedAgain(k) ==
  /\ posts[k].slug \in DOMAIN QueriedAgain
  /\ NoUpdateNeeded(posts[k], QueriedAgain[posts[k].slug])

LinksAlwaysWritten ==
  args.command = "links" =>
     /\ result.skipped = 0
     /\ \A k \in 1..currentIndex :
           Processed(k) =>
              IF Failures(k) # <<>> THEN Returned(k, WriteOps) = <<>>
              ELSE /\ Len(Returned(k, WriteOps)) = 1
                   /\ IF links[k].url \in DOMAIN existing
                      THEN /\ Returned(k, WriteOps)[1].op = "pages.update"
                           /\ Returned(k, WriteOps)[1].target = <<existing[links[k].url].pageId>>
                      ELSE Returned(k, WriteOps)[1].op = "pages.create"
     /\ pc = "exit0" /\ printed # <<>> =>
           result.created + result.updated + result.failed = Len(links)

LinksAlwaysWrittenWitness ==
  /\ args.command = "links"
  /\ pc = "exit0"
  /\ result.updated = 1
  /\ result.created = 1

====
